---------------------------- MODULE Spec2Model ----------------------------
(***************************************************************************)
(* A model of FinPulse: the DocumentIndexer (rag/indexer.py), the          *)
(* ReportGenerator that drives it (report/generator.py) and the fallback   *)
(* of GeminiClient.summarize (llm/gemini.py).                              *)
(*                                                                         *)
(* Strings are sequences of one-character strings, so that lower(),        *)
(* split() and the substring test `word in text` are computed and not      *)
(* assumed.  A relevance score, a float in the source, is the exact        *)
(* fraction [num, den].                                                    *)
(***************************************************************************)
EXTENDS Integers, Sequences, FiniteSets, TLC

(***************************************************************************)
(* Bounds of the model.                                                    *)
(***************************************************************************)
\* index_documents is called while the index stays within MaxChunks chunks
\* (the index with its file and crashes) or MaxIndexed chunks (retrieval)
MaxChunks == 2
MaxIndexed == 3
\* retrieve is called with k in -1..MaxK
MaxK == 3
\* number of process crashes followed in one behaviour
MaxCrashes == 1
\* number of failed saves (an OSError in _save_documents) in one behaviour
MaxSaveFailures == 1
\* number of generate_report calls in one behaviour
MaxCalls == 2
\* number of observations of one unit of a concept in a facts payload
MaxItems == 2
\* number of chunks in the index while the persisted files are replaced
MaxPersisted == 1
\* number of filings in the listing of a company
MaxListing == 3
\* number of requests of one generate_report call that fail without ending it
MaxOutages == 1
\* number of observations in the revenue list of a facts payload
MaxRevenueItems == 4
\* the largest limit of a get_latest_filings call
MaxLimit == 3

(***************************************************************************)
(* Strings.                                                                *)
(***************************************************************************)
\* str.lower() on one character (the capitals that occur in the model)
LowerChar(c) ==
  CASE c = "S" -> "s"
    [] c = "C" -> "c"
    [] c = "E" -> "e"
    [] OTHER -> c

\* str.lower()
Lower(s) == [i \in 1..Len(s) |-> LowerChar(s[i])]

\* the characters str.split() treats as separators
IsSpace(c) == c \in {" ", "\n", "\t"}

\* str.split(): the maximal runs of non-blank characters, in order
RECURSIVE SplitFrom(_, _, _)
SplitFrom(s, i, cur) ==
  IF i > Len(s)
    THEN IF cur = <<>> THEN <<>> ELSE <<cur>>
    ELSE IF IsSpace(s[i])
           THEN (IF cur = <<>> THEN <<>> ELSE <<cur>>) \o SplitFrom(s, i + 1, <<>>)
           ELSE SplitFrom(s, i + 1, Append(cur, s[i]))

Split(s) == SplitFrom(s, 1, <<>>)

\* Python's `word in text` on strings: word is a substring of text
Contains(text, word) ==
  \E i \in 1..(Len(text) - Len(word) + 1) :
     SubSeq(text, i, i + Len(word) - 1) = word

Range(s) == {s[i] : i \in 1..Len(s)}

Min(a, b) == IF a < b THEN a ELSE b

Max(a, b) == IF a < b THEN b ELSE a

(***************************************************************************)
(* The tables of retrieve.                                                 *)
(***************************************************************************)
investment_keywords ==
  << << \* 'sell'
       <<"s","e","l","l">>,
       <<"d","i","v","e","s","t">>,
       <<"e","x","i","t">>,
       <<"l","i","q","u","i","d","a","t","e">>,
       <<"d","i","s","p","o","s","e">>
     >>,
     << \* 'buy'
       <<"b","u","y">>,
       <<"p","u","r","c","h","a","s","e">>,
       <<"i","n","v","e","s","t">>,
       <<"a","c","q","u","i","r","e">>,
       <<"a","d","d">>
     >>,
     << \* 'hold'
       <<"h","o","l","d">>,
       <<"m","a","i","n","t","a","i","n">>,
       <<"k","e","e","p">>,
       <<"r","e","t","a","i","n">>
     >>,
     << \* 'performance'
       <<"p","e","r","f","o","r","m","a","n","c","e">>,
       <<"r","e","s","u","l","t","s">>,
       <<"e","a","r","n","i","n","g","s">>,
       <<"r","e","v","e","n","u","e">>,
       <<"p","r","o","f","i","t">>
     >>,
     << \* 'growth'
       <<"g","r","o","w","t","h">>,
       <<"i","n","c","r","e","a","s","e">>,
       <<"e","x","p","a","n","s","i","o","n">>,
       <<"r","i","s","e">>
     >>,
     << \* 'decline'
       <<"d","e","c","l","i","n","e">>,
       <<"d","e","c","r","e","a","s","e">>,
       <<"d","r","o","p">>,
       <<"f","a","l","l">>,
       <<"r","e","d","u","c","t","i","o","n">>
     >>,
     << \* 'debt'
       <<"d","e","b","t">>,
       <<"l","i","a","b","i","l","i","t","i","e","s">>,
       <<"b","o","r","r","o","w","i","n","g">>,
       <<"l","e","v","e","r","a","g","e">>
     >>,
     << \* 'cash'
       <<"c","a","s","h">>,
       <<"l","i","q","u","i","d","i","t","y">>,
       <<"f","u","n","d","s">>,
       <<"r","e","s","e","r","v","e","s">>
     >>,
     << \* 'risk'
       <<"r","i","s","k">>,
       <<"u","n","c","e","r","t","a","i","n","t","y">>,
       <<"v","o","l","a","t","i","l","i","t","y">>,
       <<"e","x","p","o","s","u","r","e">>
     >>,
     << \* 'opportunity'
       <<"o","p","p","o","r","t","u","n","i","t","y">>,
       <<"p","o","t","e","n","t","i","a","l">>,
       <<"u","p","s","i","d","e">>,
       <<"p","r","o","s","p","e","c","t">>
     >> >>

financial_sections ==
  << <<"f","i","n","a","n","c","i","a","l">>,
     <<"r","e","v","e","n","u","e">>,
     <<"i","n","c","o","m","e">>,
     <<"c","a","s","h">>,
     <<"d","e","b","t">>,
     <<"b","a","l","a","n","c","e">>,
     <<"s","t","a","t","e","m","e","n","t">> >>

(***************************************************************************)
(* DocumentIndexer: pure parts.                                            *)
(*                                                                         *)
(* A chunk is a record (a Python dict) with the fields chunk_id, text,     *)
(* url, document_id, chunk_length and those of the caller's metadata.      *)
(* RecursiveCharacterTextSplitter is the langchain library: a document     *)
(* text is given as the sequence of pieces the splitter cuts it into, and  *)
(* chunk_text returns the pieces.                                          *)
(***************************************************************************)
\* DocumentIndexer.chunk_text: text_splitter.split_text(text)
chunk_text(text) == text

\* f"{i}_{j}"
chunk_id(i, j) == ToString(i) \o "_" \o ToString(j)

\* dict.update: the keys of m overwrite those of d
Update(d, m) ==
  [key \in (DOMAIN d) \cup (DOMAIN m) |-> IF key \in DOMAIN m THEN m[key] ELSE d[key]]

\* the chunks index_documents builds for documents[i] (i counted from 0)
DocumentChunks(i, doc, metadata) ==
  LET chunks == chunk_text(doc.text)
  IN  [n \in 1..Len(chunks) |->
         LET document == [chunk_id     |-> chunk_id(i, n - 1),
                          text         |-> chunks[n],
                          url          |-> doc.url,
                          document_id  |-> i,
                          chunk_length |-> Len(chunks[n])]
         IN  IF metadata # <<>> /\ i < Len(metadata)
               THEN Update(document, metadata[i + 1])
               ELSE document]

\* the loop of index_documents over documents[i..]: every chunk appended
RECURSIVE NewChunks(_, _, _)
NewChunks(i, docs, metadata) ==
  IF i >= Len(docs)
    THEN <<>>
    ELSE DocumentChunks(i, docs[i + 1], metadata) \o NewChunks(i + 1, docs, metadata)

\* index_documents, a variant that skips a chunk the index already holds
index_documents_dedup(documents, docs, metadata) ==
  documents \o SelectSeq(NewChunks(0, docs, metadata),
                         LAMBDA c : \A n \in 1..Len(documents) :
                                       documents[n].chunk_id # c.chunk_id)

\* index_documents: self.documents after the call (before _save_documents)
index_documents(documents, docs, metadata) ==
  IF docs = <<>> THEN documents ELSE documents \o NewChunks(0, docs, metadata)

\* get_collection_stats
get_collection_stats(documents) ==
  [total_chunks |-> Len(documents), chroma_dir |-> "data/cache/chroma"]

(***************************************************************************)
(* DocumentIndexer.retrieve.                                               *)
(***************************************************************************)
\* query_words = query.lower().split()
query_words(query) == Split(Lower(query))

\* expanded_query_words: the query words and, for every word found in a
\* synonym list, the whole list
expanded_query_words(query) ==
  LET qw == Range(query_words(query))
  IN  qw \cup UNION { Range(investment_keywords[c]) :
                        c \in { d \in DOMAIN investment_keywords :
                                  \E w \in qw : w \in Range(investment_keywords[d]) } }

\* the words of the expanded query found in the chunk
MatchedWords(doc, query) ==
  { w \in expanded_query_words(query) : Contains(Lower(doc.text), w) }

\* any(section in text for section in financial_sections)
HasFinancialSection(doc) ==
  \E n \in DOMAIN financial_sections : Contains(Lower(doc.text), financial_sections[n])

\* the score of one chunk, a variant without the higher weight of the
\* words of the query
Score_unweighted(doc, query) ==
  Cardinality(MatchedWords(doc, query)) + (IF HasFinancialSection(doc) THEN 1 ELSE 0)

\* the score of one chunk: 2 per matched query word, 1 per matched synonym,
\* 1 for a financial section
Score(doc, query) ==
  LET matched == MatchedWords(doc, query)
      exact   == matched \cap Range(query_words(query))
  IN  2 * Cardinality(exact) + Cardinality(matched \ exact)
      + (IF HasFinancialSection(doc) THEN 1 ELSE 0)

\* scored_docs: <<position in self.documents, score>> of the chunks with
\* score > 0, in index order
scored_docs(documents, query) ==
  SelectSeq([n \in 1..Len(documents) |-> <<n, Score(documents[n], query)>>],
            LAMBDA e : e[2] > 0)

Reverse(s) == [n \in 1..Len(s) |-> s[Len(s) + 1 - n]]

\* insertion of x behind the entries whose score is not larger
RECURSIVE InsertStable(_, _)
InsertStable(s, x) ==
  IF s = <<>>
    THEN <<x>>
    ELSE IF x[2] < Head(s)[2]
           THEN <<x>> \o s
           ELSE <<Head(s)>> \o InsertStable(Tail(s), x)

\* a stable sort by ascending score
RECURSIVE SortAscStable(_)
SortAscStable(s) ==
  IF s = <<>>
    THEN <<>>
    ELSE InsertStable(SortAscStable(SubSeq(s, 1, Len(s) - 1)), s[Len(s)])

\* the sort, a variant that sorts ascending and reverses the result
sort_reverse_unstable(s) == Reverse(SortAscStable(s))

\* list.sort(key=score, reverse=True): the list is reversed, sorted stably
\* by ascending score and reversed again
sort_reverse(s) == Reverse(SortAscStable(Reverse(s)))

\* the slice s[:k], a variant that ignores k
Slice_all(s, k) == s

\* the slice s[:k]; a negative k counts from the end
Slice(s, k) ==
  IF k >= 0
    THEN SubSeq(s, 1, Min(k, Len(s)))
    ELSE SubSeq(s, 1, Max(Len(s) + k, 0))

\* top_docs, a variant whose sort lacks reverse=True
top_docs_ascending(documents, query, k) ==
  Slice(SortAscStable(scored_docs(documents, query)), k)

\* top_docs = sorted scored_docs[:k]
top_docs(documents, query, k) == Slice(sort_reverse(scored_docs(documents, query)), k)

\* max_possible_score, a variant that counts the words of the query
max_possible_score_words(query) == Len(query_words(query)) * 2 + 1

\* max_possible_score = len(expanded_query_words) * 2 + 1
max_possible_score(query) == Cardinality(expanded_query_words(query)) * 2 + 1

\* similarity = min(score / max_possible_score, 1.0), as a fraction
Similarity(score, query) ==
  LET mx == max_possible_score(query)
  IN  IF score > mx THEN [num |-> 1, den |-> 1] ELSE [num |-> score, den |-> mx]

\* retrieve: the list of (text, url, similarity)
retrieve(documents, query, k) ==
  IF documents = <<>>
    THEN <<>>
    ELSE LET top == top_docs(documents, query, k)
         IN  [n \in 1..Len(top) |->
                <<documents[top[n][1]].text,
                  documents[top[n][1]].url,
                  Similarity(top[n][2], query)>>]

(***************************************************************************)
(* Inputs of the model.                                                    *)
(***************************************************************************)
T_sellcash == <<"S","e","l","l"," ","c","a","s","h">>
T_divexit  == <<"d","i","v","e","s","t"," ","e","x","i","t">>
T_exit     == <<"E","x","i","t">>
T_address  == <<"a","d","d","r","e","s","s">>
T_income   == <<"i","n","c","o","m","e">>

\* the documents handed to index_documents: (text, url), the text as the
\* pieces the splitter returns (none for the empty text)
DocPool ==
  { [text |-> <<T_sellcash>>,           url |-> "u1"],
    [text |-> <<T_exit>>,               url |-> "u2"],
    [text |-> <<T_income>>,             url |-> "u3"],
    [text |-> <<T_divexit, T_address>>, url |-> "u4"],
    [text |-> <<>>,                     url |-> "u5"] }

\* the document lists of a call where the texts matter: no or one document
DocLists == {<<>>} \cup { <<d>> : d \in DocPool }

\* the document lists of a call where the texts do not matter: none, one
\* or two documents
DocListsSmall ==
  LET pool == { d \in DocPool : d.url \in {"u2", "u4", "u5"} }
  IN  {<<>>} \cup { <<d>> : d \in pool } \cup { <<d, e>> : d, e \in pool }

Q_empty    == <<>>
Q_sell     == <<"s","e","l","l">>
Q_SellSell == <<"S","e","l","l"," "," ","s","e","l","l">>
Q_buy      == <<"b","u","y">>
Q_exitcash == <<"e","x","i","t"," ","c","a","s","h">>
Q_zz       == <<"z","z">>

Queries == { Q_empty, Q_sell, Q_SellSell, Q_buy, Q_exitcash, Q_zz }

Ks == (-1)..MaxK

(***************************************************************************)
(* State.                                                                  *)
(***************************************************************************)
VARIABLES
  documents,   \* DocumentIndexer.documents, the chunks in memory
  file,        \* documents.json: [exists, content, complete]
  ipc,         \* where the indexer is: idle, save_open, save_write, down
  op,          \* the call _save_documents runs for: index, clear, none
  stats,       \* the result of get_collection_stats the caller holds
  retrieved,   \* the retrieve call whose result the caller holds
  committed,   \* history: the chunks of the last save that completed
  cleared,     \* history: clear_index returned and nothing was indexed since
  call,        \* history: the last index_documents call [before, counts]
  lastOp,      \* history: the last operation that returned
  crashes,     \* history: the number of crashes so far
  failures,    \* history: the number of failed saves so far
  processed_cache,  \* ReportGenerator.processed_cache, the set of its keys
  gen,         \* the generate_report call of every thread: its position
               \* and its local variables
  calls,       \* history: the number of generate_report calls so far
  summary,     \* the last call of GeminiClient.summarize: its arguments, the
               \* outcome of the generation call and what it returned
  kpis_call,   \* the last call of EdgarClient.extract_kpis: its argument, the
               \* time of the call and what it returned
  tickers_file,  \* company_tickers.json: [exists, parses, top, data]
  ticker_call, \* the last call of EdgarClient.ticker_to_cik: its argument,
               \* the file it found, the mapping it used and what it returned
  filings_call, \* the last call of EdgarClient.get_latest_filings: the listing
               \* the filing source answered with, the arguments, the result
  revenue_call, \* the last run of step 4 of generate_report: what the filing
               \* source answered with, quarterly_revenues and the derived KPI
  cache_call   \* the last call of ReportGenerator.clear_cache: its argument
               \* and processed_cache before and after it

ivars == <<documents, file, ipc, op, stats, retrieved,
           committed, cleared, call, lastOp, crashes, failures>>

gvars == <<processed_cache, gen, calls>>

svars == <<summary>>

evars == <<kpis_call, tickers_file, ticker_call, filings_call>>

rvars == <<revenue_call>>

cvars == <<cache_call>>

vars == <<ivars, gvars, svars, evars, rvars, cvars>>

\* what the operations of one component leave alone
outsideIndexer == <<gvars, svars, evars, rvars, cvars>>

outsideGenerator == <<svars, evars, rvars, cvars>>

outsideSummarize == <<ivars, gvars, evars, rvars, cvars>>

outsideEdgar == <<ivars, gvars, svars, rvars, cvars>>

outsideRevenue == <<ivars, gvars, svars, evars, cvars>>

NoFile == [exists |-> FALSE, content |-> <<>>, complete |-> FALSE]

\* no result held
NoStats == [total_chunks |-> -1, chroma_dir |-> ""]

NoRetrieved == [query |-> <<>>, k |-> 0, top |-> <<>>, chunks |-> <<>>, held |-> FALSE]

NoCall == [before |-> 0, counts |-> <<>>, made |-> FALSE]

\* _load_documents: the parsed list when the file exists and parses; a file
\* that was cut before its closing bracket does not parse
_load_documents(f) ==
  IF f.exists /\ f.complete THEN f.content ELSE <<>>

(***************************************************************************)
(* ReportGenerator: one instance shared by the threads of the web app.     *)
(***************************************************************************)
\* the threads that serve requests on the cached ReportGenerator
Threads == {"t1", "t2"}

AAPL == <<"A","A","P","L">>
MSFT == <<"M","S","F","T">>
ZZZZ == <<"Z","Z","Z","Z">>
CIK_AAPL == <<"0","0","0","0","3","2","0","1","9","3">>
CIK_MSFT == <<"0","0","0","0","7","8","9","0","1","9">>
FORM_10Q == <<"1","0","-","Q">>
FORM_10K == <<"1","0","-","K">>
None == <<"N","o","n","e">>

SEC_ARCHIVES_DATA ==
  <<"h","t","t","p","s",":","/","/","w","w","w",".","s","e","c",".",
    "g","o","v","/","A","r","c","h","i","v","e","s","/","e","d","g","a",
    "r","/","d","a","t","a","/">>

\* the tickers, form types and queries of the requests
Tickers == {AAPL, MSFT, ZZZZ}

FormTypes == {FORM_10Q, FORM_10K}

ReportQueries == {Q_sell, Q_zz}

\* str.upper() on one character (the small letters that occur in the model)
UpperChar(c) ==
  CASE c = "a" -> "A"
    [] c = "p" -> "P"
    [] c = "l" -> "L"
    [] c = "m" -> "M"
    [] c = "s" -> "S"
    [] c = "f" -> "F"
    [] c = "t" -> "T"
    [] c = "z" -> "Z"
    [] OTHER -> c

\* the ticker as it is
Upper_none(s) == s

\* str.upper()
Upper(s) == [i \in 1..Len(s) |-> UpperChar(s[i])]

\* common_tickers, the entries of the tickers of the model
common_tickers == { <<AAPL, CIK_AAPL>>, <<MSFT, CIK_MSFT>> }

\* ticker_to_cik: tickers_map.get(ticker.upper())
ticker_to_cik(ticker) ==
  IF \E e \in common_tickers : e[1] = Upper(ticker)
    THEN (CHOOSE e \in common_tickers : e[1] = Upper(ticker))[2]
    ELSE None

\* the recent filings the filing source lists for a company, newest first
RecentFilings(cik) ==
  IF cik = CIK_AAPL
    THEN << [form |-> FORM_10Q, filingDate |-> "2024-08-02", reportDate |-> "2024-06-29",
             accessionNumber |-> <<"3","2","-","2","4","-","8","1">>,
             primaryDocument |-> <<"a","1">>],
            [form |-> <<"8","-","K">>, filingDate |-> "2024-05-03", reportDate |-> "2024-05-02",
             accessionNumber |-> <<"3","2","-","2","4","-","7","0">>,
             primaryDocument |-> <<"a","k">>],
            [form |-> FORM_10Q, filingDate |-> "2024-05-03", reportDate |-> "2024-03-30",
             accessionNumber |-> <<"3","2","-","2","4","-","6","9">>,
             primaryDocument |-> <<"a","2">>] >>
    ELSE IF cik = CIK_MSFT
    THEN << [form |-> FORM_10Q, filingDate |-> "2024-04-25", reportDate |-> "2024-03-31",
             accessionNumber |-> <<"7","8","-","2","4","-","4","8">>,
             primaryDocument |-> <<"m","1">>] >>
    ELSE <<>>

\* data['filings']['recent']: one list per field, the fields of a filing at
\* the same position of every list
Columns(rows) ==
  [form            |-> [i \in 1..Len(rows) |-> rows[i].form],
   filingDate      |-> [i \in 1..Len(rows) |-> rows[i].filingDate],
   reportDate      |-> [i \in 1..Len(rows) |-> rows[i].reportDate],
   accessionNumber |-> [i \in 1..Len(rows) |-> rows[i].accessionNumber],
   primaryDocument |-> [i \in 1..Len(rows) |-> rows[i].primaryDocument]]

\* the positions from i on at which the form is form_type, in order
RECURSIVE PositionsFrom(_, _, _)
PositionsFrom(forms, i, form_type) ==
  IF i > Len(forms) THEN <<>>
  ELSE (IF forms[i] = form_type THEN <<i>> ELSE <<>>)
         \o PositionsFrom(forms, i + 1, form_type)

\* the positions the loop appends a filing for: it stops after an append
\* that brings len(filings) to limit or more
TakenPositions(recent, form_type, limit) ==
  LET matching == PositionsFrom(recent.form, 1, form_type)
  IN  SubSeq(matching, 1, Min(Max(limit, 1), Len(matching)))

\* the loop raises IndexError: a list of a field is shorter than a position
\* it appends a filing for
latest_filings_raises(recent, form_type, limit) ==
  LET taken == TakenPositions(recent, form_type, limit)
  IN  \E n \in 1..Len(taken) :
         \/ Len(recent.filingDate) < taken[n]
         \/ Len(recent.reportDate) < taken[n]
         \/ Len(recent.accessionNumber) < taken[n]
         \/ Len(recent.primaryDocument) < taken[n]

\* the filings with the fields at the position in the result
latest_filings_shifted(recent, form_type, limit) ==
  LET taken == TakenPositions(recent, form_type, limit)
  IN  [n \in 1..Len(taken) |->
         [form            |-> recent.form[taken[n]],
          filingDate      |-> recent.filingDate[n],
          reportDate      |-> recent.reportDate[n],
          accessionNumber |-> recent.accessionNumber[n],
          primaryDocument |-> recent.primaryDocument[n]]]

\* the filings get_latest_filings builds from the listing
latest_filings(recent, form_type, limit) ==
  LET taken == TakenPositions(recent, form_type, limit)
  IN  [n \in 1..Len(taken) |->
         [form            |-> recent.form[taken[n]],
          filingDate      |-> recent.filingDate[taken[n]],
          reportDate      |-> recent.reportDate[taken[n]],
          accessionNumber |-> recent.accessionNumber[taken[n]],
          primaryDocument |-> recent.primaryDocument[taken[n]]]]

\* get_latest_filings on the listing of the company
get_latest_filings(cik, form_type, limit) ==
  latest_filings(Columns(RecentFilings(cik)), form_type, limit)

\* the text the filing source serves for a document, as the pieces the
\* splitter cuts it into
FilingText(primary_document) ==
  CASE primary_document = <<"a","1">> -> <<T_sellcash>>
    [] primary_document = <<"a","2">> -> <<T_income>>
    [] primary_document = <<"m","1">> -> <<T_exit, T_divexit>>
    [] OTHER -> <<>>

\* accession_number.replace('-', '')
RemoveDashes(s) == SelectSeq(s, LAMBDA c : c # "-")

\* f"https://www.sec.gov/Archives/edgar/data/{cik}/{accession_clean}/{primary_document}"
filing_url(cik, accession_number, primary_document) ==
  SEC_ARCHIVES_DATA \o cik \o <<"/">> \o RemoveDashes(accession_number)
    \o <<"/">> \o primary_document

\* cache_key = f"{ticker}_{form_type}_{cik}"
cache_key(ticker, form_type, cik) ==
  ticker \o <<"_">> \o form_type \o <<"_">> \o cik

\* the k of the retrieve call of generate_report
RetrieveK == 5

\* the number of filings generate_report asks for
FilingsLimit == 3

\* a thread outside generate_report
IdleCall ==
  [pc |-> "idle", ticker |-> <<>>, form_type |-> <<>>, query |-> <<>>,
   cik |-> <<>>, filings |-> <<>>, key |-> <<>>, n |-> 0, docs |-> <<>>,
   metadata |-> <<>>, retrieved_docs |-> <<>>, outcome |-> "none",
   requests |-> <<>>, invoked |-> <<>>]

\* a request of the call to the filing source: the method of EdgarClient,
\* the step of generate_report that makes it, its argument and its outcome
Request(method, step, arg, ok) ==
  [method |-> method, step |-> step, arg |-> arg, ok |-> ok]

\* the requests of the call on thread t that failed
Outages(t) == Len(SelectSeq(gen[t].requests, LAMBDA r : ~r.ok))

\* ReportGenerator.__init__: processed_cache = {}
InitGenerator ==
  /\ processed_cache = {}
  /\ gen = [t \in Threads |-> IdleCall]
  /\ calls = 0

\* the except clause of generate_report logs the error and raises it again
Raised(t, error) ==
  gen' = [gen EXCEPT ![t] = [@ EXCEPT !.pc = "return", !.outcome = error]]

\* generate_report(ticker, form_type, query) is called on thread t
GenerateReport(t, ticker, form_type, query) ==
  /\ gen[t].pc = "idle"
  /\ gen' = [gen EXCEPT ![t] = [IdleCall EXCEPT !.pc = "resolve", !.ticker = ticker,
                                                !.form_type = form_type, !.query = query]]
  /\ calls' = calls + 1
  /\ UNCHANGED <<ivars, processed_cache>>
  /\ UNCHANGED outsideGenerator

\* step 2: get_company_facts and extract_kpis
FetchFacts(t) ==
  /\ gen[t].pc = "facts"
  /\ gen' = [gen EXCEPT ![t] =
               [@ EXCEPT !.pc = "filings",
                         !.requests = Append(@, Request("get_company_facts", "facts",
                                                        gen[t].cik, TRUE))]]
  /\ UNCHANGED <<ivars, processed_cache, calls>>
  /\ UNCHANGED outsideGenerator

\* step 2: the request of get_company_facts fails and the error is raised
FetchFactsFails(t) ==
  /\ gen[t].pc = "facts"
  /\ gen' = [gen EXCEPT ![t] =
               [@ EXCEPT !.pc = "return",
                         !.outcome = "RequestException: company facts",
                         !.requests = Append(@, Request("get_company_facts", "facts",
                                                        gen[t].cik, FALSE))]]
  /\ UNCHANGED <<ivars, processed_cache, calls>>
  /\ UNCHANGED outsideGenerator

\* step 3: get_latest_filings(cik, form_type, limit=3)
FetchFilings(t) ==
  /\ gen[t].pc = "filings"
  /\ gen' = [gen EXCEPT ![t] =
               [@ EXCEPT !.pc = "revenue",
                         !.filings = get_latest_filings(gen[t].cik, gen[t].form_type,
                                                        FilingsLimit),
                         !.requests = Append(@, Request("get_latest_filings", "filings",
                                                        gen[t].cik, TRUE))]]
  /\ UNCHANGED <<ivars, processed_cache, calls>>
  /\ UNCHANGED outsideGenerator

\* step 3: the request of get_latest_filings fails and the error is raised
FetchFilingsFails(t) ==
  /\ gen[t].pc = "filings"
  /\ gen' = [gen EXCEPT ![t] =
               [@ EXCEPT !.pc = "return",
                         !.outcome = "RequestException: filings",
                         !.requests = Append(@, Request("get_latest_filings", "filings",
                                                        gen[t].cik, FALSE))]]
  /\ UNCHANGED <<ivars, processed_cache, calls>>
  /\ UNCHANGED outsideGenerator

\* what get_quarterly_revenue_from_xbrl comes to: revenues, none in the
\* facts, or a failed request (logged, none returned)
XbrlOutcomes == {"revenues", "none", "fails"}

\* step 4: the requests of get_quarterly_revenue_from_xbrl and of the text
\* fallback, which runs over filings[:3] when there are no revenues and
\* there are filings; text_fails are the filings whose text is not fetched
revenue_requests(cik, filings, xbrl, text_fails) ==
  <<Request("get_company_facts", "revenue", cik, xbrl # "fails")>>
    \o (IF xbrl # "revenues"
          THEN [i \in 1..Min(FilingsLimit, Len(filings)) |->
                  Request("get_filing_text", "revenue", filings[i].primaryDocument,
                          i \notin text_fails)]
          ELSE <<>>)

\* step 4 and the lines up to the check of the filings, without the check
CollectRevenue_unchecked(t, xbrl, text_fails) ==
  /\ gen[t].pc = "revenue"
  /\ text_fails \subseteq
       (IF xbrl # "revenues" THEN 1..Min(FilingsLimit, Len(gen[t].filings)) ELSE {})
  /\ Cardinality(text_fails) + (IF xbrl = "fails" THEN 1 ELSE 0) <= MaxOutages
  /\ gen' = [gen EXCEPT ![t] =
               [@ EXCEPT !.pc = "check_cache",
                         !.requests = @ \o revenue_requests(gen[t].cik, gen[t].filings,
                                                            xbrl, text_fails)]]
  /\ UNCHANGED <<ivars, processed_cache, calls>>
  /\ UNCHANGED outsideGenerator

\* step 4 and the lines up to the check of the filings: the quarterly
\* revenue is collected (get_quarterly_revenue_from_xbrl and the text
\* fallback swallow their failures),
\* the display sources are built, and no filings raise ValueError
CollectRevenue(t, xbrl, text_fails) ==
  /\ gen[t].pc = "revenue"
  /\ text_fails \subseteq
       (IF xbrl # "revenues" THEN 1..Min(FilingsLimit, Len(gen[t].filings)) ELSE {})
  /\ Cardinality(text_fails) + (IF xbrl = "fails" THEN 1 ELSE 0) <= MaxOutages
  /\ gen' = [gen EXCEPT ![t] =
               [@ EXCEPT !.pc = IF gen[t].filings = <<>> THEN "return" ELSE "check_cache",
                         !.outcome = IF gen[t].filings = <<>>
                                       THEN "ValueError: No filings found" ELSE @,
                         !.requests = @ \o revenue_requests(gen[t].cik, gen[t].filings,
                                                            xbrl, text_fails)]]
  /\ UNCHANGED <<ivars, processed_cache, calls>>
  /\ UNCHANGED outsideGenerator

\* step 5 without the check of processed_cache: the build runs every time
CheckCache_always(t) ==
  /\ gen[t].pc = "check_cache"
  /\ gen' = [gen EXCEPT ![t] =
               [@ EXCEPT !.key = cache_key(gen[t].ticker, gen[t].form_type, gen[t].cik),
                         !.pc = "fetch",
                         !.invoked = Append(@, "_build_document_index")]]
  /\ UNCHANGED <<ivars, processed_cache, calls>>
  /\ UNCHANGED outsideGenerator

\* step 5: cache_key not in processed_cache decides on the build
CheckCache(t) ==
  /\ gen[t].pc = "check_cache"
  /\ LET key == cache_key(gen[t].ticker, gen[t].form_type, gen[t].cik)
     IN  gen' = [gen EXCEPT ![t] =
                   [@ EXCEPT !.key = key,
                             !.pc = IF key \notin processed_cache THEN "fetch" ELSE "retrieve",
                             !.invoked = IF key \notin processed_cache
                                           THEN Append(@, "_build_document_index") ELSE @]]
  /\ UNCHANGED <<ivars, processed_cache, calls>>
  /\ UNCHANGED outsideGenerator

\* _build_document_index: the loop over the filings is at filings[n]
CurrentFiling(t) == gen[t].filings[gen[t].n + 1]

\* _build_document_index: get_filing_text returns and the filing joins
\* documents and metadata
FetchFiling(t) ==
  /\ gen[t].pc = "fetch"
  /\ gen[t].n < Len(gen[t].filings)
  /\ LET filing == CurrentFiling(t)
         doc == [text |-> FilingText(filing.primaryDocument),
                 url  |-> filing_url(gen[t].cik, filing.accessionNumber,
                                     filing.primaryDocument)]
         meta == [ticker           |-> gen[t].ticker,
                  cik              |-> gen[t].cik,
                  filing_date      |-> filing.filingDate,
                  report_date      |-> filing.reportDate,
                  form             |-> filing.form,
                  accession_number |-> filing.accessionNumber]
     IN  gen' = [gen EXCEPT ![t] =
                   [@ EXCEPT !.n = @ + 1,
                             !.docs = Append(@, doc),
                             !.metadata = Append(@, meta),
                             !.requests = Append(@, Request("get_filing_text", "build",
                                                            filing.primaryDocument, TRUE))]]
  /\ UNCHANGED <<ivars, processed_cache, calls>>
  /\ UNCHANGED outsideGenerator

\* _build_document_index if the error of get_filing_text were raised on
FetchFilingFails_raises(t) ==
  /\ gen[t].pc = "fetch"
  /\ gen[t].n < Len(gen[t].filings)
  /\ Outages(t) < MaxOutages
  /\ gen' = [gen EXCEPT ![t] =
               [@ EXCEPT !.pc = "return",
                         !.outcome = "RequestException: filing text",
                         !.requests = Append(@, Request("get_filing_text", "build",
                                                        CurrentFiling(t).primaryDocument,
                                                        FALSE))]]
  /\ UNCHANGED <<ivars, processed_cache, calls>>
  /\ UNCHANGED outsideGenerator

\* _build_document_index: get_filing_text raises, the error is logged and
\* the filing is skipped
FetchFilingFails(t) ==
  /\ gen[t].pc = "fetch"
  /\ gen[t].n < Len(gen[t].filings)
  /\ Outages(t) < MaxOutages
  /\ gen' = [gen EXCEPT ![t] =
               [@ EXCEPT !.n = @ + 1,
                         !.requests = Append(@, Request("get_filing_text", "build",
                                                        CurrentFiling(t).primaryDocument,
                                                        FALSE))]]
  /\ UNCHANGED <<ivars, processed_cache, calls>>
  /\ UNCHANGED outsideGenerator

\* _build_document_index: after the loop, index_documents is called when
\* there are documents
FetchDone(t) ==
  /\ gen[t].pc = "fetch"
  /\ gen[t].n = Len(gen[t].filings)
  /\ gen' = [gen EXCEPT ![t] =
               [@ EXCEPT !.n = 0,
                         !.pc = IF gen[t].docs # <<>> THEN "index" ELSE "mark",
                         !.invoked = IF gen[t].docs # <<>>
                                       THEN Append(@, "index_documents") ELSE @]]
  /\ UNCHANGED <<ivars, processed_cache, calls>>
  /\ UNCHANGED outsideGenerator

\* index_documents: one round of its loop appends the chunks of documents[n]
IndexDocument(t) ==
  /\ gen[t].pc = "index"
  /\ gen[t].n < Len(gen[t].docs)
  /\ documents' = documents \o DocumentChunks(gen[t].n, gen[t].docs[gen[t].n + 1],
                                               gen[t].metadata)
  /\ gen' = [gen EXCEPT ![t] = [@ EXCEPT !.n = @ + 1]]
  /\ UNCHANGED <<file, ipc, op, stats, retrieved, committed, cleared, call, lastOp,
                 crashes, failures, processed_cache, calls>>
  /\ UNCHANGED outsideGenerator

\* index_documents: _save_documents writes self.documents to the file
SaveIndex(t) ==
  /\ gen[t].pc = "index"
  /\ gen[t].n = Len(gen[t].docs)
  /\ file' = [exists |-> TRUE, content |-> documents, complete |-> TRUE]
  /\ committed' = documents
  /\ gen' = [gen EXCEPT ![t] = [@ EXCEPT !.pc = "mark"]]
  /\ UNCHANGED <<documents, ipc, op, stats, retrieved, cleared, call, lastOp,
                 crashes, failures, processed_cache, calls>>
  /\ UNCHANGED outsideGenerator

\* processed_cache[cache_key] = True
MarkProcessed(t) ==
  /\ gen[t].pc = "mark"
  /\ processed_cache' = processed_cache \cup {gen[t].key}
  /\ gen' = [gen EXCEPT ![t] = [@ EXCEPT !.pc = "retrieve"]]
  /\ UNCHANGED <<ivars, calls>>
  /\ UNCHANGED outsideGenerator

\* the two fallback sources of generate_report, by their similarity
fallback_sources(ticker, cik) ==
  << <<"SEC EDGAR company facts data", <<"companyfacts">> \o cik, [num |-> 8, den |-> 10]>>,
     <<"SEC EDGAR submissions", <<"submissions">> \o cik, [num |-> 7, den |-> 10]>> >>

\* step 6: retrieve(query, k=5), the fallback sources when it returns none,
\* then summarize and generate_kpi_table
RetrieveAndSummarize(t) ==
  /\ gen[t].pc = "retrieve"
  /\ LET found == retrieve(documents, gen[t].query, RetrieveK)
     IN  gen' = [gen EXCEPT ![t] =
                   [@ EXCEPT !.pc = "return",
                             !.outcome = "report",
                             !.invoked = @ \o <<"retrieve", "summarize",
                                                "generate_kpi_table">>,
                             !.retrieved_docs =
                                IF found = <<>>
                                  THEN fallback_sources(gen[t].ticker, gen[t].cik)
                                  ELSE found]]
  /\ UNCHANGED <<ivars, processed_cache, calls>>
  /\ UNCHANGED outsideGenerator

\* generate_report returns the report or raises; the thread is free again
Return(t) ==
  /\ gen[t].pc = "return"
  /\ gen' = [gen EXCEPT ![t] = IdleCall]
  /\ UNCHANGED <<ivars, processed_cache, calls>>
  /\ UNCHANGED outsideGenerator

(***************************************************************************)
(* GeminiClient.summarize.                                                 *)
(***************************************************************************)
\* str(n) of a digit
DigitChar(d) ==
  CASE d = 0 -> "0" [] d = 1 -> "1" [] d = 2 -> "2" [] d = 3 -> "3" [] d = 4 -> "4"
    [] d = 5 -> "5" [] d = 6 -> "6" [] d = 7 -> "7" [] d = 8 -> "8" [] d = 9 -> "9"

\* str(n) of a natural number, as its characters
RECURSIVE Decimal(_)
Decimal(n) == IF n < 10 THEN <<DigitChar(n)>> ELSE Decimal(n \div 10) \o <<DigitChar(n % 10)>>

\* s[:n]
Take(s, n) == SubSeq(s, 1, Min(n, Len(s)))

\* str.strip()
RECURSIVE LStrip(_)
LStrip(s) == IF s # <<>> /\ IsSpace(s[1]) THEN LStrip(Tail(s)) ELSE s

RECURSIVE RStrip(_)
RStrip(s) == IF s # <<>> /\ IsSpace(s[Len(s)]) THEN RStrip(SubSeq(s, 1, Len(s) - 1)) ELSE s

Strip(s) == RStrip(LStrip(s))

\* the number of characters of the error message the fallback quotes
ErrorChars == 100

URL_API_DOCS ==
  <<"h","t","t","p","s",":","/","/","w","w","w",".","s","e","c",".","g","o",
    "v","/","e","d","g","a","r","/","s","e","c","-","a","p","i","-","d","o",
    "c","u","m","e","n","t","a","t","i","o","n">>

URL_EDGAR ==
  <<"h","t","t","p","s",":","/","/","w","w","w",".","s","e","c",".","g","o",
    "v","/","e","d","g","a","r">>

SOURCES_HEADER ==
  <<"\n","\n","*","*","S","o","u","r","c","e","s",":","*","*","\n">>

FALLBACK_ANALYSIS ==
  <<"A","n","a","l","y","s","i","s"," ","f","o","r"," ","q","u","e","r","y",
    ":"," ","'">>

FALLBACK_BASED_ON ==
  <<"B","a","s","e","d"," ","o","n"," ">>

FALLBACK_KEY_METRICS ==
  <<" ","k","e","y"," ","m","e","t","r","i","c","s"," ","a","n","d"," ">>

FALLBACK_DOCUMENTS ==
  <<" ","r","e","l","e","v","a","n","t"," ","d","o","c","u","m","e","n","t",
    "s","."," ">>

FALLBACK_INCLUDE ==
  <<"K","e","y"," ","m","e","t","r","i","c","s"," ","i","n","c","l","u","d",
    "e"," ","r","e","v","e","n","u","e",","," ","n","e","t"," ","i","n","c",
    "o","m","e",","," ","a","n","d"," ","c","a","s","h"," ","p","o","s","i",
    "t","i","o","n","."," ">>

FALLBACK_NOTE ==
  <<"\n","\n","U+26A0","U+FE0F"," ","*","*","N","o","t","e","*","*",":"," ",
    "A","I"," ","a","n","a","l","y","s","i","s"," ","u","n","a","v","a","i",
    "l","a","b","l","e"," ","d","u","e"," ","t","o"," ","A","P","I"," ","e",
    "r","r","o","r",":"," ">>

FALLBACK_REFER ==
  <<"P","l","e","a","s","e"," ","r","e","f","e","r"," ","t","o"," ","t","h",
    "e"," ","s","o","u","r","c","e"," ","d","o","c","u","m","e","n","t","s",
    " ","f","o","r"," ","d","e","t","a","i","l","e","d"," ","a","n","a","l",
    "y","s","i","s",".">>

\* citation_key = f"[S{i}]"
citation_key(i) == <<"[", "S">> \o Decimal(i) \o <<"]">>

\* source_citations without the two fixed entries
source_citations_retrieved(sources) ==
  [i \in 1..Len(sources) |-> <<citation_key(i), sources[i][2]>>]

\* source_citations: one (key, url) per source, and the two fixed ones
\* when there are no sources
source_citations(sources) ==
  IF sources = <<>>
    THEN << <<citation_key(1), URL_API_DOCS>>, <<citation_key(2), URL_EDGAR>> >>
    ELSE [i \in 1..Len(sources) |-> <<citation_key(i), sources[i][2]>>]

\* the lines f"- {citation_key}: {url}\n" of the citations from the i-th on
RECURSIVE citation_lines(_, _)
citation_lines(citations, i) ==
  IF i > Len(citations) THEN <<>>
  ELSE <<"-", " ">> \o citations[i][1] \o <<":", " ">> \o citations[i][2] \o <<"\n">>
         \o citation_lines(citations, i + 1)

\* the summary returned when generate_content answers with text
summary_text(sources, text) ==
  LET citations == source_citations(sources)
  IN  Strip(text) \o (IF citations # <<>>
                        THEN SOURCES_HEADER \o citation_lines(citations, 1)
                        ELSE <<>>)

\* str(e) without the cut
error_text_full(e) == e

\* str(e)[:100]
error_text(e) == Take(e, ErrorChars)

\* the fallback summary of the except clause
fallback(kpis, sources, user_query, e) ==
  FALLBACK_ANALYSIS \o user_query \o <<"'", "\n", "\n">>
    \o FALLBACK_BASED_ON \o Decimal(Cardinality(kpis)) \o FALLBACK_KEY_METRICS
    \o Decimal(Len(sources)) \o FALLBACK_DOCUMENTS
    \o FALLBACK_INCLUDE
    \o FALLBACK_NOTE \o error_text(e) \o <<".", ".", ".">>
    \o FALLBACK_REFER

\* the KPI dictionaries of the calls, by their keys
KpiChoices == {{}, {"Revenue"}, {"Revenue", "NetIncome"}}

\* the source lists of the calls
S_one == <<T_sellcash, <<"u","1">>, [num |-> 2, den |-> 5]>>

S_two == <<T_income, <<"u","3">>, [num |-> 1, den |-> 5]>>

SourceChoices == {<<>>, <<S_one>>, <<S_one, S_two>>, <<S_one, S_one>>}

\* a generated text that ends with a Sources block of its own
R_with_sources ==
  <<"O", "k", ".">> \o SOURCES_HEADER
    \o <<"-", " ", "[", "S", "1", "]", ":", " ", "u", "1", "\n">>

\* the texts generate_content answers with
ResponseTexts ==
  { <<>>, <<" ", "O", "k", " ", "[", "S", "1", "]", ".", "\n">>,
    <<"H", "o", "l", "d", ".">>, R_with_sources }

\* the messages of the errors generate_content raises: none, a short one,
\* one of exactly ErrorChars characters and one that is longer
E_quota == <<"q","u","o","t","a">>

E_limit == [i \in 1..ErrorChars |-> "x"]

E_long == [i \in 1..(ErrorChars + 2) |-> IF i <= ErrorChars THEN "x" ELSE "y"]

ErrorMessages == {<<>>, E_quota, E_limit, E_long}

NoSummary ==
  [kpis |-> {}, sources |-> <<>>, user_query |-> <<>>, raised |-> FALSE,
   error |-> <<>>, text |-> <<>>, citations |-> <<>>, returned |-> <<>>,
   called |-> FALSE]

InitSummarize == summary = NoSummary

\* summarize(kpis, sources, user_query) when generate_content answers
SummarizeOk(kpis, sources, user_query, text) ==
  /\ summary' = [kpis |-> kpis, sources |-> sources, user_query |-> user_query,
                 raised |-> FALSE, error |-> <<>>, text |-> text,
                 citations |-> source_citations(sources),
                 returned |-> summary_text(sources, text), called |-> TRUE]
  /\ UNCHANGED outsideSummarize

\* summarize(kpis, sources, user_query) when generate_content raises e
SummarizeFails(kpis, sources, user_query, e) ==
  /\ summary' = [kpis |-> kpis, sources |-> sources, user_query |-> user_query,
                 raised |-> TRUE, error |-> e, text |-> <<>>,
                 citations |-> source_citations(sources),
                 returned |-> fallback(kpis, sources, user_query, e), called |-> TRUE]
  /\ UNCHANGED outsideSummarize

(***************************************************************************)
(* EdgarClient._get_tickers_mapping and ticker_to_cik.                     *)
(***************************************************************************)
\* a Python dict as a function: key in d, d.get(key, default)
Has(d, key) == key \in DOMAIN d

Get(d, key, default) == IF key \in DOMAIN d THEN d[key] ELSE default

\* an empty dict
EmptyDict == [key \in {} |-> <<>>]

\* common_tickers in the order of the dict
common_tickers_items == << <<AAPL, CIK_AAPL>>, <<MSFT, CIK_MSFT>> >>

\* company_tickers.json: whether it exists, whether json.load parses it,
\* whether the value is a dict, and the (key, value) pairs of the dict in
\* their order; a value is a dict or a string
TF_missing == [exists |-> FALSE, parses |-> FALSE, top |-> "none", data |-> <<>>]

TF_corrupt == [exists |-> TRUE, parses |-> FALSE, top |-> "none", data |-> <<>>]

TF_list == [exists |-> TRUE, parses |-> TRUE, top |-> "list", data |-> <<>>]

StrEntry(key, value) == [key |-> key, kind |-> "str", value |-> [str |-> value]]

DictEntry(key, value) == [key |-> key, kind |-> "dict", value |-> value]

\* json.dump(common_tickers, f): ticker -> cik, both strings
TF_dump ==
  [exists |-> TRUE, parses |-> TRUE, top |-> "dict",
   data |-> [n \in 1..Len(common_tickers_items) |->
               StrEntry(common_tickers_items[n][1], common_tickers_items[n][2])]]

\* a file in the cached format: index -> {ticker, cik_str}; ZZZZ is in it
\* twice, AAPL under another identifier than the built-in one
CIK_ZZZZ == <<"0","0","0","0","0","0","0","0","4","2">>

CIK_OTHER == <<"0","0","0","0","0","0","0","0","0","7">>

TF_cached ==
  [exists |-> TRUE, parses |-> TRUE, top |-> "dict",
   data |-> << DictEntry(<<"0">>, [ticker |-> ZZZZ, cik_str |-> CIK_OTHER]),
               DictEntry(<<"1">>, [ticker |-> AAPL, cik_str |-> CIK_OTHER]),
               DictEntry(<<"2">>, [ticker |-> ZZZZ, cik_str |-> CIK_ZZZZ]) >>]

\* the cached format with an item that has no cik_str
TF_nocik ==
  [exists |-> TRUE, parses |-> TRUE, top |-> "dict",
   data |-> << DictEntry(<<"0">>, [ticker |-> AAPL, cik_str |-> CIK_AAPL]),
               DictEntry(<<"1">>, [ticker |-> MSFT]) >>]

\* the empty dict
TF_empty == [exists |-> TRUE, parses |-> TRUE, top |-> "dict", data |-> <<>>]

TickerFiles == {TF_missing, TF_corrupt, TF_list, TF_dump, TF_cached, TF_nocik, TF_empty}

\* the try block of _get_tickers_mapping raises: json.load fails, the value
\* has no values(), or an item has no 'ticker' or 'cik_str'
LoadRaises(f) ==
  \/ ~f.parses
  \/ f.top # "dict"
  \/ \E n \in 1..Len(f.data) :
        \/ f.data[n].kind # "dict"
        \/ ~Has(f.data[n].value, "ticker")
        \/ ~Has(f.data[n].value, "cik_str")

\* {item['ticker']: item['cik_str'] for item in data.values()}: the later
\* item of a ticker wins
LoadedMapping(f) ==
  { <<f.data[n].value["ticker"], f.data[n].value["cik_str"]>> :
      n \in { i \in 1..Len(f.data) :
                \A j \in (i + 1)..Len(f.data) :
                   f.data[j].value["ticker"] # f.data[i].value["ticker"] } }

\* the file is read and used
UsesFile(f) == f.exists /\ ~LoadRaises(f)

\* _get_tickers_mapping, always the built-in mapping
tickers_mapping_builtin(f) == common_tickers

\* _get_tickers_mapping: the mapping it returns
tickers_mapping(f) == IF UsesFile(f) THEN LoadedMapping(f) ELSE common_tickers

\* dict.get(key): the value of the key, None without it
MappingGet(mapping, key) ==
  IF \E e \in mapping : e[1] = key
    THEN (CHOOSE e \in mapping : e[1] = key)[2]
    ELSE None

\* ticker_to_cik on the mapping _get_tickers_mapping returned
ticker_to_cik_in(mapping, ticker) == MappingGet(mapping, Upper(ticker))

\* the tickers of the calls
TickerInputs ==
  { AAPL, MSFT, ZZZZ, <<"a","a","p","l">>, <<"A","a","p","l">>, <<"m","s","f","t">>,
    <<"z","z","z","z">>, <<>> }

NoTickerCall ==
  [ticker |-> <<>>, found |-> TF_missing, mapping |-> {}, cik |-> None,
   wrote |-> FALSE, called |-> FALSE]

\* ticker_to_cik(ticker); when the file is not used the built-in mapping is
\* written to it
TickerToCik(ticker) ==
  /\ ~ticker_call.called
  /\ tickers_file' = IF UsesFile(tickers_file) THEN tickers_file ELSE TF_dump
  /\ ticker_call' =
       [ticker |-> ticker, found |-> tickers_file,
        mapping |-> tickers_mapping(tickers_file),
        cik |-> ticker_to_cik_in(tickers_mapping(tickers_file), ticker),
        wrote |-> ~UsesFile(tickers_file), called |-> TRUE]
  /\ UNCHANGED <<kpis_call, filings_call>>
  /\ UNCHANGED outsideEdgar

\* ticker_to_cik(ticker) when the write of the built-in mapping raises: the
\* error is logged; the file is as it was, or cut off by the open
TickerToCikWriteFails(ticker) ==
  /\ ~ticker_call.called
  /\ ~UsesFile(tickers_file)
  /\ tickers_file' \in {tickers_file, TF_corrupt}
  /\ ticker_call' =
       [ticker |-> ticker, found |-> tickers_file,
        mapping |-> tickers_mapping(tickers_file),
        cik |-> ticker_to_cik_in(tickers_mapping(tickers_file), ticker),
        wrote |-> FALSE, called |-> TRUE]
  /\ UNCHANGED <<kpis_call, filings_call>>
  /\ UNCHANGED outsideEdgar

\* the caller drops the result
ForgetTicker ==
  /\ ticker_call.called
  /\ ticker_call' = NoTickerCall
  /\ UNCHANGED <<kpis_call, tickers_file, filings_call>>
  /\ UNCHANGED outsideEdgar

\* the cache directory gets another company_tickers.json, or loses it
ReplaceTickersFile(f) ==
  /\ ~ticker_call.called
  /\ tickers_file' = f
  /\ UNCHANGED <<kpis_call, ticker_call, filings_call>>
  /\ UNCHANGED outsideEdgar

(***************************************************************************)
(* generate_report, step 1: the ticker is resolved on the mapping of       *)
(* _get_tickers_mapping.                                                   *)
(***************************************************************************)
\* step 1 without the check of the CIK
ResolveTicker_unchecked(t) ==
  /\ gen[t].pc = "resolve"
  /\ gen' = [gen EXCEPT ![t] =
               [@ EXCEPT !.pc = "facts",
                         !.cik = ticker_to_cik_in(tickers_mapping(tickers_file),
                                                  gen[t].ticker)]]
  /\ tickers_file' = IF UsesFile(tickers_file) THEN tickers_file ELSE TF_dump
  /\ UNCHANGED <<ivars, processed_cache, calls>>
  /\ UNCHANGED <<svars, kpis_call, ticker_call, filings_call, rvars, cvars>>

\* step 1: ticker_to_cik, which writes the built-in mapping to the file
\* when the file is not used; no CIK raises ValueError
ResolveTicker(t) ==
  /\ gen[t].pc = "resolve"
  /\ LET cik == ticker_to_cik_in(tickers_mapping(tickers_file), gen[t].ticker)
     IN  IF cik = None
           THEN Raised(t, "ValueError: Could not find CIK")
           ELSE gen' = [gen EXCEPT ![t] = [@ EXCEPT !.pc = "facts", !.cik = cik]]
  /\ tickers_file' = IF UsesFile(tickers_file) THEN tickers_file ELSE TF_dump
  /\ UNCHANGED <<ivars, processed_cache, calls>>
  /\ UNCHANGED <<svars, kpis_call, ticker_call, filings_call, rvars, cvars>>

(***************************************************************************)
(* EdgarClient.get_latest_filings.                                         *)
(***************************************************************************)
\* the filings of the listings
F_q1 == RecentFilings(CIK_AAPL)[1]

F_8k == RecentFilings(CIK_AAPL)[2]

F_q2 == RecentFilings(CIK_AAPL)[3]

F_k1 ==
  [form |-> FORM_10K, filingDate |-> "2023-11-03", reportDate |-> "2023-09-30",
   accessionNumber |-> <<"3","2","-","2","3","-","5","5">>, primaryDocument |-> <<"a","y">>]

FilingPool == {F_q1, F_8k, F_q2, F_k1}

\* the lists of at most n filings
RECURSIVE FilingLists(_)
FilingLists(n) ==
  IF n = 0 THEN {<<>>}
  ELSE FilingLists(n - 1)
         \cup { Append(l, f) : l \in { x \in FilingLists(n - 1) : Len(x) = n - 1 },
                               f \in FilingPool }

\* a listing whose list of primary documents is one short
ShortListing ==
  [Columns(<<F_q1, F_q2>>) EXCEPT !.primaryDocument = <<F_q1.primaryDocument>>]

\* the listings the filing source answers with
Listings == { Columns(rows) : rows \in FilingLists(MaxListing) } \cup {ShortListing}

Limits == (-1)..MaxLimit

NoFilingsCall ==
  [recent |-> Columns(<<>>), form_type |-> <<>>, limit |-> 0, raised |-> FALSE,
   filings |-> <<>>, called |-> FALSE]

\* get_latest_filings(cik, form_type, limit) when the filing source answers
\* with the listing recent
GetLatestFilings(recent, form_type, limit) ==
  /\ ~filings_call.called
  /\ filings_call' =
       IF latest_filings_raises(recent, form_type, limit)
         THEN [recent |-> recent, form_type |-> form_type, limit |-> limit,
               raised |-> TRUE, filings |-> <<>>, called |-> TRUE]
         ELSE [recent |-> recent, form_type |-> form_type, limit |-> limit,
               raised |-> FALSE,
               filings |-> latest_filings(recent, form_type, limit), called |-> TRUE]
  /\ UNCHANGED <<kpis_call, tickers_file, ticker_call>>
  /\ UNCHANGED outsideEdgar

\* get_latest_filings when the request fails: RequestException is raised
GetLatestFilingsFails(form_type, limit) ==
  /\ ~filings_call.called
  /\ filings_call' =
       [recent |-> Columns(<<>>), form_type |-> form_type, limit |-> limit,
        raised |-> TRUE, filings |-> <<>>, called |-> TRUE]
  /\ UNCHANGED <<kpis_call, tickers_file, ticker_call>>
  /\ UNCHANGED outsideEdgar

\* the caller drops the result
ForgetFilings ==
  /\ filings_call.called
  /\ filings_call' = NoFilingsCall
  /\ UNCHANGED <<kpis_call, tickers_file, ticker_call>>
  /\ UNCHANGED outsideEdgar

(***************************************************************************)
(* EdgarClient.extract_kpis.                                               *)
(***************************************************************************)
\* str.startswith
StartsWith(s, prefix) ==
  Len(prefix) <= Len(s) /\ SubSeq(s, 1, Len(prefix)) = prefix

\* the digits of a string of digits, as a number; -1 for anything else
IsDigit(c) == c \in {"0", "1", "2", "3", "4", "5", "6", "7", "8", "9"}

DigitValue(c) == CHOOSE d \in 0..9 : DigitChar(d) = c

RECURSIVE Number(_)
Number(s) ==
  IF s = <<>> THEN 0 ELSE 10 * Number(SubSeq(s, 1, Len(s) - 1)) + DigitValue(s[Len(s)])

AllDigits(s) == s # <<>> /\ \A i \in 1..Len(s) : IsDigit(s[i])

\* the parts of a string between its dashes
RECURSIVE SplitDash(_, _)
SplitDash(s, cur) ==
  IF s = <<>> THEN <<cur>>
  ELSE IF s[1] = "-" THEN <<cur>> \o SplitDash(Tail(s), <<>>)
  ELSE SplitDash(Tail(s), Append(cur, s[1]))

IsLeap(y) == (y % 4 = 0 /\ y % 100 # 0) \/ y % 400 = 0

DaysInMonth(y, m) ==
  IF m = 2 THEN (IF IsLeap(y) THEN 29 ELSE 28)
  ELSE IF m \in {4, 6, 9, 11} THEN 30 ELSE 31

RECURSIVE DaysBeforeMonth(_, _)
DaysBeforeMonth(y, m) ==
  IF m = 1 THEN 0 ELSE DaysBeforeMonth(y, m - 1) + DaysInMonth(y, m - 1)

\* date.toordinal(): the days from 0001-01-01, which is day 1
Ordinal(y, m, d) ==
  (y - 1) * 365 + (y - 1) \div 4 - (y - 1) \div 100 + (y - 1) \div 400
    + DaysBeforeMonth(y, m) + d

InvalidDate == -1

\* datetime.strptime(s, '%Y-%m-%d'): the ordinal of the date, InvalidDate
\* when it raises ValueError (four digits of year, one or two of month and
\* of day, a day the month has)
strptime(s) ==
  LET parts == SplitDash(s, <<>>)
  IN  IF /\ Len(parts) = 3
         /\ AllDigits(parts[1]) /\ Len(parts[1]) = 4
         /\ AllDigits(parts[2]) /\ Len(parts[2]) <= 2
         /\ AllDigits(parts[3]) /\ Len(parts[3]) <= 2
        THEN LET y == Number(parts[1])
                 m == Number(parts[2])
                 d == Number(parts[3])
             IN  IF y >= 1 /\ m \in 1..12 /\ d >= 1 /\ d <= DaysInMonth(y, m)
                   THEN Ordinal(y, m, d)
                   ELSE InvalidDate
        ELSE InvalidDate

\* timedelta(days=730)
CutoffDays == 730

SecondsPerDay == 86400

\* end_date >= cutoff_date, with cutoff_date = now - timedelta(days=730);
\* now is [y, m, d, secs], secs the seconds since midnight
NotBeforeCutoff(end_ordinal, now) ==
  (end_ordinal - (Ordinal(now.y, now.m, now.d) - CutoffDays)) * SecondsPerDay >= now.secs

\* the date filter left out
IsRecent_always(item, now) == TRUE

\* the item survives the date filter of get_latest_10q_data
IsRecent(item, now) ==
  LET end_date_str == Get(item, "end", <<>>)
  IN  /\ end_date_str # <<>>
      /\ strptime(end_date_str) # InvalidDate
      /\ NotBeforeCutoff(strptime(end_date_str), now)

\* get_latest_10q_data: the last item of the unit whose form starts with
\* 10-Q and whose end date is not before the cutoff; <<>> stands for None
\* (the result is a sequence of no or one item)
get_latest_10q_data_first(unit_data, now) ==
  LET recent_q10_data ==
        SelectSeq(unit_data,
                  LAMBDA item : StartsWith(Get(item, "form", <<>>), FORM_10Q)
                                  /\ IsRecent(item, now))
  IN  IF recent_q10_data # <<>> THEN <<recent_q10_data[1]>> ELSE <<>>

get_latest_10q_data(unit_data, now) ==
  LET recent_q10_data ==
        SelectSeq(unit_data,
                  LAMBDA item : StartsWith(Get(item, "form", <<>>), FORM_10Q)
                                  /\ IsRecent(item, now))
  IN  IF recent_q10_data # <<>> THEN <<recent_q10_data[Len(recent_q10_data)]>> ELSE <<>>

\* kpi_mappings: the names of the recognized metrics
kpi_mappings ==
  {"Revenues", "NetIncomeLoss", "EarningsPerShareDiluted",
   "CashAndCashEquivalentsAtCarryingValue", "LongTermDebtNoncurrent"}

preferred_unit(kpi_name) ==
  IF kpi_name # "EarningsPerShareDiluted" THEN "USD" ELSE "USD/shares"

\* units is a dict in the order of its keys: a sequence of [unit, items]
HasUnit(units, unit) == \E n \in 1..Len(units) : units[n].unit = unit

UnitData(units, unit) == units[CHOOSE n \in 1..Len(units) : units[n].unit = unit].items

\* latest_data of one metric: the preferred unit, else USD, else
\* USD/shares, else the first unit of the concept
latest_data(us_gaap, kpi_name, now) ==
  LET units == Get(us_gaap[kpi_name], "units", <<>>)
  IN  IF HasUnit(units, preferred_unit(kpi_name))
        THEN get_latest_10q_data(UnitData(units, preferred_unit(kpi_name)), now)
      ELSE IF HasUnit(units, "USD")
        THEN get_latest_10q_data(UnitData(units, "USD"), now)
      ELSE IF HasUnit(units, "USD/shares")
        THEN get_latest_10q_data(UnitData(units, "USD/shares"), now)
      ELSE IF units # <<>>
        THEN get_latest_10q_data(units[1].items, now)
      ELSE <<>>

\* the metrics of kpi_mappings that get a record
FoundKpis(us_gaap, now) ==
  { kpi_name \in kpi_mappings :
      Has(us_gaap, kpi_name) /\ latest_data(us_gaap, kpi_name, now) # <<>> }

\* extract_kpis raises KeyError: latest_data['val'] of an item without val
extract_kpis_raises(company_facts, now) ==
  /\ Has(company_facts, "facts") /\ Has(company_facts["facts"], "us-gaap")
  /\ LET us_gaap == company_facts["facts"]["us-gaap"]
     IN  \E kpi_name \in FoundKpis(us_gaap, now) :
            ~Has(latest_data(us_gaap, kpi_name, now)[1], "val")

\* extract_kpis: the dict of the records of the metrics
extract_kpis(company_facts, now) ==
  IF ~Has(company_facts, "facts") \/ ~Has(company_facts["facts"], "us-gaap")
    THEN EmptyDict
    ELSE LET us_gaap == company_facts["facts"]["us-gaap"]
         IN  [kpi_name \in FoundKpis(us_gaap, now) |->
                LET item == latest_data(us_gaap, kpi_name, now)[1]
                IN  [value  |-> item["val"],
                     period |-> Get(item, "end", <<>>),
                     form   |-> Get(item, "form", <<>>),
                     filed  |-> Get(item, "filed", <<>>)]]

\* the times of the calls: a midnight, a noon, and the noon of a leap day
Nows ==
  { [y |-> 2026, m |-> 11, d |-> 5, secs |-> 0],
    [y |-> 2026, m |-> 11, d |-> 5, secs |-> 43200],
    [y |-> 2024, m |-> 2, d |-> 29, secs |-> 43200] }

D_recent  == <<"2","0","2","6","-","0","8","-","0","1">>
D_leapday == <<"2","0","2","4","-","0","2","-","2","9">>
D_edge    == <<"2","0","2","4","-","1","1","-","0","5">>
D_3years  == <<"2","0","2","3","-","1","1","-","0","5">>
D_nodate  == <<"2","0","2","5","-","0","2","-","3","0">>
D_short   == <<"2","0","2","6","-","9","-","1">>
FORM_10QA == <<"1","0","-","Q","/","A">>

\* the observations of the payloads
I_recent  == [form |-> FORM_10Q, end |-> D_recent, val |-> 5, filed |-> D_recent]
I_3years  == [form |-> FORM_10Q, end |-> D_3years, val |-> 5, filed |-> D_recent]
I_amended == [form |-> FORM_10QA, end |-> D_short, val |-> 7, filed |-> D_recent]
I_edge    == [form |-> FORM_10Q, end |-> D_edge, val |-> 3]
I_leapday == [form |-> FORM_10Q, end |-> D_leapday, val |-> 2]
I_annual  == [form |-> FORM_10K, end |-> D_recent, val |-> 9]
I_noend   == [form |-> FORM_10Q, val |-> 4]
I_nodate  == [form |-> FORM_10Q, end |-> D_nodate, val |-> 6]
I_noform  == [end |-> D_recent, val |-> 8]
I_noval   == [form |-> FORM_10Q, end |-> D_recent]
I_zero    == [form |-> FORM_10Q, end |-> D_recent, val |-> 0]

Items ==
  {I_recent, I_3years, I_amended, I_edge, I_leapday, I_annual, I_noend,
   I_nodate, I_noform, I_noval, I_zero}

\* the lists of at most MaxItems observations
RECURSIVE ItemLists(_)
ItemLists(n) ==
  IF n = 0 THEN {<<>>}
  ELSE ItemLists(n - 1)
         \cup { Append(l, i) : l \in { x \in ItemLists(n - 1) : Len(x) = n - 1 }, i \in Items }

\* a facts payload with the given us-gaap section
Facts(us_gaap) == [key \in {"facts"} |-> [section \in {"us-gaap"} |-> us_gaap]]

Concept(units) == [key \in {"units"} |-> units]

\* the facts payloads: the ones without structure, and the ones built
\* around one list of observations
Payloads ==
  { EmptyDict,
    [key \in {"cik"} |-> EmptyDict],
    [key \in {"facts"} |-> EmptyDict],
    [key \in {"facts"} |-> [section \in {"dei"} |-> EmptyDict]],
    Facts(EmptyDict),
    Facts([c \in {"Assets"} |-> Concept(<<[unit |-> "USD", items |-> <<I_recent>>]>>)]),
    Facts([c \in {"Revenues"} |-> EmptyDict]),
    Facts([c \in {"Revenues"} |-> Concept(<<>>)]) }
  \cup { Facts([c \in {"Revenues"} |-> Concept(<<[unit |-> "USD", items |-> l]>>)]) :
           l \in ItemLists(MaxItems) }
  \cup { Facts([c \in {"Revenues"} |->
                  Concept(<<[unit |-> "EUR", items |-> l],
                            [unit |-> "GBP", items |-> <<I_recent>>]>>)]) :
           l \in ItemLists(1) }
  \cup { Facts([c \in {"EarningsPerShareDiluted", "NetIncomeLoss"} |->
                  Concept(<<[unit |-> "USD", items |-> <<I_zero>>],
                            [unit |-> "USD/shares", items |-> l]>>)]) :
           l \in ItemLists(1) }

NoKpisCall ==
  [company_facts |-> EmptyDict, now |-> [y |-> 1, m |-> 1, d |-> 1, secs |-> 0],
   raised |-> FALSE, kpis |-> EmptyDict, called |-> FALSE]

InitEdgar ==
  /\ kpis_call = NoKpisCall
  /\ tickers_file = TF_missing
  /\ ticker_call = NoTickerCall
  /\ filings_call = NoFilingsCall

\* extract_kpis(company_facts) at the time now
ExtractKpis(company_facts, now) ==
  /\ ~kpis_call.called
  /\ kpis_call' =
       IF extract_kpis_raises(company_facts, now)
         THEN [company_facts |-> company_facts, now |-> now, raised |-> TRUE,
               kpis |-> EmptyDict, called |-> TRUE]
         ELSE [company_facts |-> company_facts, now |-> now, raised |-> FALSE,
               kpis |-> extract_kpis(company_facts, now), called |-> TRUE]
  /\ UNCHANGED <<tickers_file, ticker_call, filings_call>>
  /\ UNCHANGED outsideEdgar

\* the caller drops the result
ForgetKpis ==
  /\ kpis_call.called
  /\ kpis_call' = NoKpisCall
  /\ UNCHANGED <<tickers_file, ticker_call, filings_call>>
  /\ UNCHANGED outsideEdgar

(***************************************************************************)
(* EdgarClient.get_quarterly_revenue_from_xbrl,                            *)
(* EdgarClient.extract_revenue_from_filing_text and step 4 of              *)
(* generate_report.  A dict that is iterated is a sequence of              *)
(* <<key, value>> in the order of insertion.                               *)
(***************************************************************************)
\* d[key] = value: the value of a key the dict holds is replaced in place
DictSet(d, key, value) ==
  IF \E n \in 1..Len(d) : d[n][1] = key
    THEN [n \in 1..Len(d) |-> IF d[n][1] = key THEN <<key, value>> ELSE d[n]]
    ELSE Append(d, <<key, value>>)

\* ord(c) of the characters of a date
CharOrd(c) == IF c = "-" THEN 45 ELSE 48 + DigitValue(c)

\* a < b for two strings
RECURSIVE StrLess(_, _)
StrLess(a, b) ==
  IF b = <<>> THEN FALSE
  ELSE IF a = <<>> THEN TRUE
  ELSE IF a[1] # b[1] THEN CharOrd(a[1]) < CharOrd(b[1])
  ELSE StrLess(Tail(a), Tail(b))

\* insertion of x behind the items whose end is not smaller
RECURSIVE InsertByEnd(_, _)
InsertByEnd(s, x) ==
  IF s = <<>>
    THEN <<x>>
    ELSE IF StrLess(Get(Head(s), "end", <<>>), Get(x, "end", <<>>))
           THEN <<x>> \o s
           ELSE <<Head(s)>> \o InsertByEnd(Tail(s), x)

\* list.sort(key=end, reverse=True): descending, items of one end in their
\* order in the list
RECURSIVE SortByEndDesc(_)
SortByEndDesc(s) ==
  IF s = <<>>
    THEN <<>>
    ELSE InsertByEnd(SortByEndDesc(SubSeq(s, 1, Len(s) - 1)), s[Len(s)])

\* insertion of a string into an ascending list of strings
RECURSIVE InsertStr(_, _)
InsertStr(s, x) ==
  IF s = <<>>
    THEN <<x>>
    ELSE IF StrLess(x, Head(s))
           THEN <<x>> \o s
           ELSE <<Head(s)>> \o InsertStr(Tail(s), x)

\* sorted(keys)
RECURSIVE SortedStrs(_)
SortedStrs(s) ==
  IF s = <<>> THEN <<>> ELSE InsertStr(SortedStrs(SubSeq(s, 1, Len(s) - 1)), s[Len(s)])

\* revenue_fields, in the order they are tried
revenue_fields == <<"Revenues", "Revenue", "SalesRevenueNet", "NetSales">>

\* the loop over recent_q10_data[:limit]: quarterly_revenues[period] = val
\* for the items with val > 0
RECURSIVE PutRevenues(_, _)
PutRevenues(d, items) ==
  IF items = <<>>
    THEN d
    ELSE LET item == Head(items)
             next == IF Get(item, "val", 0) > 0
                       THEN DictSet(d, Get(item, "end", <<>>), Get(item, "val", 0))
                       ELSE d
         IN  PutRevenues(next, Tail(items))

\* the body of the loop for one field: quarterly_revenues after it
field_revenues(us_gaap, field, now, limit) ==
  LET units == Get(us_gaap[field], "units", <<>>)
  IN  IF HasUnit(units, "USD")
        THEN LET recent_q10_data ==
                   SelectSeq(UnitData(units, "USD"),
                             LAMBDA item : StartsWith(Get(item, "form", <<>>), FORM_10Q)
                                             /\ IsRecent(item, now))
             IN  PutRevenues(<<>>, Slice(SortByEndDesc(recent_q10_data), limit))
        ELSE <<>>

\* the loop over revenue_fields from field n on: it breaks at the first
\* field that leaves quarterly_revenues non-empty
RECURSIVE revenues_from(_, _, _, _)
revenues_from(us_gaap, n, now, limit) ==
  IF n > Len(revenue_fields)
    THEN <<>>
    ELSE LET found == IF Has(us_gaap, revenue_fields[n])
                        THEN field_revenues(us_gaap, revenue_fields[n], now, limit)
                        ELSE <<>>
         IN  IF found # <<>> THEN found ELSE revenues_from(us_gaap, n + 1, now, limit)

\* get_quarterly_revenue_from_xbrl on the facts the request returned
get_quarterly_revenue_from_xbrl(company_facts, now, limit) ==
  IF ~Has(company_facts, "facts") \/ ~Has(company_facts["facts"], "us-gaap")
    THEN <<>>
    ELSE revenues_from(company_facts["facts"]["us-gaap"], 1, now, limit)

\* the factors of the amounts found in a text; the model counts these
\* amounts in thousands of dollars
Million == 1000

Billion == 1000000

\* revenue_patterns by their position: the ones that hold 'million' or
\* 'Total net sales' give millions, the others billions
PatternFactor(n) == IF n \in {4, 5, 6} THEN Billion ELSE Million

\* str.replace(',', '')
RemoveCommas(s) == SelectSeq(s, LAMBDA c : c # ",")

\* the first match whose text float() takes, from match n on; the matches
\* of a text are the first match of each pattern that matches, in the order
\* of revenue_patterns (the captured texts of the model hold no decimal
\* point)
RECURSIVE FirstAmount(_, _)
FirstAmount(matches, n) ==
  IF n > Len(matches)
    THEN 0
    ELSE IF AllDigits(RemoveCommas(matches[n].captured))
           THEN Number(RemoveCommas(matches[n].captured)) * PatternFactor(matches[n].pattern)
           ELSE FirstAmount(matches, n + 1)

\* extract_revenue_from_filing_text: 0 for a report date before the cutoff,
\* else the amount of the first match, 0 without one
extract_revenue_from_filing_text(matches, report_date, now) ==
  IF strptime(report_date) # InvalidDate /\ ~NotBeforeCutoff(strptime(report_date), now)
    THEN 0
    ELSE FirstAmount(matches, 1)

\* the text fallback, a variant that stops at the first filing that fails
RECURSIVE text_revenues_stops(_, _, _, _, _)
text_revenues_stops(d, filings, fetched, n, now) ==
  IF n > Min(FilingsLimit, Len(filings)) \/ ~fetched[n].ok
    THEN d
    ELSE LET report_date == filings[n].reportDate
             revenue_value == extract_revenue_from_filing_text(fetched[n].matches,
                                                               report_date, now)
             next == IF revenue_value > 0
                       THEN DictSet(d, report_date, revenue_value)
                       ELSE d
         IN  text_revenues_stops(next, filings, fetched, n + 1, now)

\* the text fallback over the filings from n on; fetched[n] is what
\* get_filing_text gives for filing n: whether it returns, and the matches
\* of the patterns in the text
RECURSIVE text_revenues(_, _, _, _, _)
text_revenues(d, filings, fetched, n, now) ==
  IF n > Min(FilingsLimit, Len(filings))
    THEN d
    ELSE LET report_date == filings[n].reportDate
             revenue_value == extract_revenue_from_filing_text(fetched[n].matches,
                                                               report_date, now)
             next == IF fetched[n].ok /\ revenue_value > 0
                       THEN DictSet(d, report_date, revenue_value)
                       ELSE d
         IN  text_revenues(next, filings, fetched, n + 1, now)

\* step 4: quarterly_revenues after the XBRL request (facts_ok: it
\* returned) and the text fallback
quarterly_revenues(facts_ok, company_facts, filings, fetched, now) ==
  LET xbrl == IF facts_ok
                THEN get_quarterly_revenue_from_xbrl(company_facts, now, FilingsLimit)
                ELSE <<>>
  IN  IF xbrl = <<>> /\ filings # <<>>
        THEN text_revenues(xbrl, filings, fetched, 1, now)
        ELSE xbrl

\* the filings whose text the fallback asks for, in the order of the
\* requests
text_requests(facts_ok, company_facts, filings, now) ==
  LET xbrl == IF facts_ok
                THEN get_quarterly_revenue_from_xbrl(company_facts, now, FilingsLimit)
                ELSE <<>>
  IN  IF xbrl = <<>> /\ filings # <<>>
        THEN [n \in 1..Min(FilingsLimit, Len(filings)) |-> filings[n].primaryDocument]
        ELSE <<>>

\* sum(quarterly_revenues.values())
RECURSIVE SumValues(_)
SumValues(d) == IF d = <<>> THEN 0 ELSE Head(d)[2] + SumValues(Tail(d))

\* ', '.join(strs)
RECURSIVE Join(_)
Join(strs) ==
  IF strs = <<>> THEN <<>>
  ELSE IF Len(strs) = 1 THEN strs[1]
  ELSE strs[1] \o <<",", " ">> \o Join(Tail(strs))

\* f"Last {len(quarterly_revenues)} quarters ({', '.join(sorted(keys))})"
period_text(d) ==
  <<"L","a","s","t"," ">> \o Decimal(Len(d))
    \o <<" ","q","u","a","r","t","e","r","s"," ","(">>
    \o Join(SortedStrs([n \in 1..Len(d) |-> d[n][1]])) \o <<")">>

\* the Revenue_9_Months record of the KPIs: none, or one
revenue_kpi(d) ==
  IF d # <<>> /\ SumValues(d) > 0
    THEN <<[value |-> SumValues(d), period |-> period_text(d), form |-> FORM_10Q]>>
    ELSE <<>>

\* the observations of the revenue payloads
D_q2 == <<"2","0","2","6","-","0","5","-","0","2">>

D_q1 == <<"2","0","2","6","-","0","1","-","3","1">>

I_ytd == [form |-> FORM_10Q, end |-> D_recent, val |-> 11, filed |-> D_recent]

I_q2 == [form |-> FORM_10Q, end |-> D_q2, val |-> 4, filed |-> D_q2]

I_q1 == [form |-> FORM_10Q, end |-> D_q1, val |-> 2, filed |-> D_q1]

RevenueItems == {I_recent, I_ytd, I_q2, I_edge, I_zero}

\* the lists of at most n observations of revenue
RECURSIVE RevenueLists(_)
RevenueLists(n) ==
  IF n = 0 THEN {<<>>}
  ELSE RevenueLists(n - 1)
         \cup { Append(l, i) : l \in { x \in RevenueLists(n - 1) : Len(x) = n - 1 },
                               i \in RevenueItems }

\* facts with one revenue field in USD
RevenueFacts(field, items) ==
  Facts([c \in {field} |-> Concept(<<[unit |-> "USD", items |-> items]>>)])

\* the facts of the XBRL request: one list under Revenues, and the ones
\* that lack the structure, the field, the unit or a usable observation
RevenuePayloads ==
  { RevenueFacts("Revenues", l) : l \in RevenueLists(MaxRevenueItems) }
  \cup { EmptyDict,
         Facts(EmptyDict),
         RevenueFacts("NetSales", <<I_q2>>),
         RevenueFacts("Assets", <<I_q2>>),
         RevenueFacts("Revenues", <<I_annual, I_3years, I_noval, I_nodate>>),
         Facts([c \in {"Revenues"} |-> Concept(<<[unit |-> "EUR", items |-> <<I_q2>>]>>)]),
         Facts([c \in {"Revenues", "SalesRevenueNet"} |->
                  IF c = "Revenues"
                    THEN Concept(<<[unit |-> "USD", items |-> <<I_zero, I_annual>>]>>)
                    ELSE Concept(<<[unit |-> "USD", items |-> <<I_q1, I_q2>>]>>)]),
         Facts([c \in {"Revenues", "NetSales"} |->
                  IF c = "Revenues"
                    THEN Concept(<<[unit |-> "USD", items |-> <<I_q1>>]>>)
                    ELSE Concept(<<[unit |-> "USD", items |-> <<I_q2>>]>>)]) }

\* the times of the runs of step 4
RevenueNows ==
  { [y |-> 2026, m |-> 11, d |-> 5, secs |-> 0],
    [y |-> 2026, m |-> 11, d |-> 5, secs |-> 43200] }

\* the filings of step 3, by the fields step 4 reads
G_recent == [primaryDocument |-> <<"g","1">>, reportDate |-> D_recent]

G_q2 == [primaryDocument |-> <<"g","2">>, reportDate |-> D_q2]

G_old == [primaryDocument |-> <<"g","3">>, reportDate |-> D_3years]

G_undated == [primaryDocument |-> <<"g","4">>, reportDate |-> <<>>]

FilingChoices ==
  { <<>>, <<G_recent>>, <<G_old>>, <<G_undated>>, <<G_recent, G_q2>>,
    <<G_recent, G_q2, G_old>>, <<G_old, G_undated, G_recent>> }

\* what get_filing_text gives for a filing: the request fails, or a text
\* with the first match of each pattern that matches
X_fails == [ok |-> FALSE, matches |-> <<>>]

X_none == [ok |-> TRUE, matches |-> <<>>]

X_sales == [ok |-> TRUE, matches |-> <<[pattern |-> 1, captured |-> <<"1",",","2","0","0">>]>>]

X_zero == [ok |-> TRUE, matches |-> <<[pattern |-> 2, captured |-> <<"0">>]>>]

X_billion ==
  [ok |-> TRUE, matches |-> <<[pattern |-> 1, captured |-> <<",">>],
                              [pattern |-> 5, captured |-> <<"3">>]>>]

FetchOutcomes == {X_fails, X_none, X_sales, X_zero, X_billion}

NoRevenueCall ==
  [facts_ok |-> FALSE, company_facts |-> EmptyDict, filings |-> <<>>, fetched |-> <<>>,
   now |-> [y |-> 1, m |-> 1, d |-> 1, secs |-> 0], xbrl |-> <<>>, requests |-> <<>>,
   revenues |-> <<>>, kpi |-> <<>>, called |-> FALSE]

InitRevenue == revenue_call = NoRevenueCall

\* step 4 of generate_report and the lines that add Revenue_9_Months
CollectQuarterlyRevenue(facts_ok, company_facts, filings, fetched, now) ==
  /\ ~revenue_call.called
  /\ LET d == quarterly_revenues(facts_ok, company_facts, filings, fetched, now)
     IN  revenue_call' =
           [facts_ok |-> facts_ok, company_facts |-> company_facts, filings |-> filings,
            fetched |-> fetched, now |-> now,
            xbrl |-> IF facts_ok
                       THEN get_quarterly_revenue_from_xbrl(company_facts, now, FilingsLimit)
                       ELSE <<>>,
            requests |-> text_requests(facts_ok, company_facts, filings, now),
            revenues |-> d, kpi |-> revenue_kpi(d), called |-> TRUE]
  /\ UNCHANGED outsideRevenue

\* the report is returned and the next one asked for
ForgetRevenue ==
  /\ revenue_call.called
  /\ revenue_call' = NoRevenueCall
  /\ UNCHANGED outsideRevenue

(***************************************************************************)
(* ReportGenerator.clear_cache and the restart of the process.             *)
(***************************************************************************)
\* clear_cache() without a ticker: None
NoTicker == <<>>

\* the arguments of the clear_cache calls
ClearTickers == {NoTicker, <<"A">>, AAPL, MSFT}

\* keys_to_remove = [key for key in processed_cache.keys() if key.startswith(ticker)]
keys_to_remove(cache, ticker) == { key \in cache : StartsWith(key, ticker) }

\* no clear_cache call so far
NoCacheCall == [ticker |-> NoTicker, before |-> {}, after |-> {}, made |-> FALSE]

InitCache == cache_call = NoCacheCall

\* clear_cache(ticker), called between two reports: with a ticker the keys
\* that start with it are deleted; without one processed_cache is emptied
\* and clear_index empties the index and saves it
ClearCache(ticker) ==
  /\ \A t \in Threads : gen[t].pc = "idle"
  /\ ~cache_call.made
  /\ IF ticker # NoTicker
       THEN /\ processed_cache' = processed_cache \ keys_to_remove(processed_cache, ticker)
            /\ UNCHANGED <<documents, file, committed>>
       ELSE /\ processed_cache' = {}
            /\ documents' = <<>>
            /\ file' = [exists |-> TRUE, content |-> <<>>, complete |-> TRUE]
            /\ committed' = <<>>
  /\ cache_call' = [ticker |-> ticker, before |-> processed_cache,
                    after |-> processed_cache', made |-> TRUE]
  /\ UNCHANGED <<ipc, op, stats, retrieved, cleared, call, lastOp, crashes, failures,
                 gen, calls>>
  /\ UNCHANGED <<svars, evars, rvars>>

\* the caller drops the record of the call
ForgetCache ==
  /\ cache_call.made
  /\ cache_call' = NoCacheCall
  /\ UNCHANGED <<ivars, gvars, svars, evars, rvars>>

\* the process of the application ends and starts again: the new
\* ReportGenerator has an empty processed_cache and its DocumentIndexer
\* loads documents.json
RestartGenerator ==
  /\ crashes < MaxCrashes
  /\ crashes' = crashes + 1
  /\ processed_cache' = {}
  /\ gen' = [t \in Threads |-> IdleCall]
  /\ documents' = _load_documents(file)
  /\ UNCHANGED <<file, ipc, op, stats, retrieved, committed, cleared, call, lastOp,
                 failures, calls>>
  /\ UNCHANGED outsideGenerator

(***************************************************************************)
(* DocumentIndexer: operations.                                            *)
(***************************************************************************)
\* DocumentIndexer.__init__ on a directory without documents.json
InitIndexer ==
  /\ file = NoFile
  /\ documents = _load_documents(NoFile)
  /\ ipc = "idle"
  /\ op = "none"
  /\ stats = NoStats
  /\ retrieved = NoRetrieved
  /\ committed = <<>>
  /\ cleared = FALSE
  /\ call = NoCall
  /\ lastOp = "init"
  /\ crashes = 0
  /\ failures = 0

\* the state after the construction of the ReportGenerator and its parts
Init ==
  InitIndexer /\ InitGenerator /\ InitSummarize /\ InitEdgar /\ InitRevenue /\ InitCache

\* c_i of every document of a call
ChunkCounts(docs) == [n \in 1..Len(docs) |-> Len(chunk_text(docs[n].text))]

RECURSIVE Sum(_)
Sum(s) == IF s = <<>> THEN 0 ELSE Head(s) + Sum(Tail(s))

\* index_documents(docs, metadata) up to its call of _save_documents; with
\* an empty list it returns at once
IndexDocuments(docs, metadata) ==
  /\ ipc = "idle"
  /\ documents' = index_documents(documents, docs, metadata)
  /\ call' = [before |-> Len(documents), counts |-> ChunkCounts(docs), made |-> TRUE]
  /\ stats' = NoStats
  /\ retrieved' = NoRetrieved
  /\ IF docs = <<>>
       THEN /\ lastOp' = "index_documents"
            /\ UNCHANGED <<ipc, op, cleared>>
       ELSE /\ ipc' = "save_open"
            /\ op' = "index_documents"
            /\ cleared' = FALSE
            /\ UNCHANGED lastOp
  /\ UNCHANGED <<file, committed, crashes, failures>>
  /\ UNCHANGED outsideIndexer

\* clear_index up to its call of _save_documents
ClearIndex ==
  /\ ipc = "idle"
  /\ documents' = <<>>
  /\ ipc' = "save_open"
  /\ op' = "clear_index"
  /\ call' = NoCall
  /\ stats' = NoStats
  /\ retrieved' = NoRetrieved
  /\ UNCHANGED <<file, committed, cleared, lastOp, crashes, failures>>
  /\ UNCHANGED outsideIndexer

\* the return of _save_documents and of the call it ran for
Returned ==
  /\ ipc' = "idle"
  /\ op' = "none"
  /\ lastOp' = op
  /\ cleared' = IF op = "clear_index" THEN TRUE ELSE cleared

\* _save_documents: open(documents_file, 'w') truncates the file
SaveOpen ==
  /\ ipc = "save_open"
  /\ file' = [exists |-> TRUE, content |-> <<>>, complete |-> FALSE]
  /\ ipc' = "save_write"
  /\ UNCHANGED <<documents, op, stats, retrieved, committed, cleared, call, lastOp, crashes, failures>>
  /\ UNCHANGED outsideIndexer

\* _save_documents: json.dump writes the next chunk
SaveWrite ==
  /\ ipc = "save_write"
  /\ Len(file.content) < Len(documents)
  /\ file' = [file EXCEPT !.content = Append(@, documents[Len(@) + 1])]
  /\ UNCHANGED <<documents, ipc, op, stats, retrieved, committed, cleared, call, lastOp, crashes, failures>>
  /\ UNCHANGED outsideIndexer

\* _save_documents: json.dump writes the closing bracket, the file is closed
SaveClose ==
  /\ ipc = "save_write"
  /\ Len(file.content) = Len(documents)
  /\ file' = [file EXCEPT !.complete = TRUE]
  /\ committed' = documents
  /\ Returned
  /\ UNCHANGED <<documents, stats, retrieved, call, crashes, failures>>
  /\ UNCHANGED outsideIndexer

\* _save_documents: open or write raises (OSError); the except clause logs
\* the error and the call returns normally
SaveFails ==
  /\ ipc \in {"save_open", "save_write"}
  /\ failures < MaxSaveFailures
  /\ failures' = failures + 1
  /\ Returned
  /\ UNCHANGED <<documents, file, stats, retrieved, committed, call, crashes>>
  /\ UNCHANGED outsideIndexer

\* get_collection_stats
GetStats ==
  /\ ipc = "idle"
  /\ stats' = get_collection_stats(documents)
  /\ lastOp' = "get_collection_stats"
  /\ UNCHANGED <<documents, file, ipc, op, retrieved, committed, cleared, call, crashes, failures>>
  /\ UNCHANGED outsideIndexer

\* retrieve(query, k)
Retrieve(query, k) ==
  /\ ipc = "idle"
  /\ ~retrieved.held
  /\ retrieved' = [query  |-> query,
                   k      |-> k,
                   top    |-> IF documents = <<>> THEN <<>> ELSE top_docs(documents, query, k),
                   chunks |-> retrieve(documents, query, k),
                   held   |-> TRUE]
  /\ UNCHANGED <<documents, file, ipc, op, stats, committed, cleared, call, lastOp, crashes, failures>>
  /\ UNCHANGED outsideIndexer

\* the caller drops the result of retrieve
Forget ==
  /\ retrieved.held
  /\ retrieved' = NoRetrieved
  /\ UNCHANGED <<documents, file, ipc, op, stats, committed, cleared, call, lastOp, crashes, failures>>
  /\ UNCHANGED outsideIndexer

\* the process dies, at any point: the memory is lost, the file stays
Crash ==
  /\ ipc # "down"
  /\ crashes < MaxCrashes
  /\ crashes' = crashes + 1
  /\ ipc' = "down"
  /\ op' = "none"
  /\ documents' = <<>>
  /\ stats' = NoStats
  /\ call' = NoCall
  /\ UNCHANGED <<file, retrieved, committed, cleared, lastOp, failures>>
  /\ UNCHANGED outsideIndexer

\* a new DocumentIndexer on the same directory: __init__ loads the file
Restart ==
  /\ ipc = "down"
  /\ documents' = _load_documents(file)
  /\ ipc' = "idle"
  /\ lastOp' = "restart"
  /\ UNCHANGED <<file, op, stats, retrieved, committed, cleared, call, crashes, failures>>
  /\ UNCHANGED outsideIndexer

\* the total number of chunks stays within the bound
Within(docs, bound) == Len(documents) + Sum(ChunkCounts(docs)) <= bound

\* the indexer with its file, crashes and restarts
NextIndexer ==
  \/ \E docs \in DocListsSmall : Within(docs, MaxChunks) /\ IndexDocuments(docs, <<>>)
  \/ ClearIndex
  \/ SaveOpen
  \/ SaveWrite
  \/ SaveClose
  \/ SaveFails
  \/ GetStats
  \/ Crash
  \/ Restart

SpecIndexer == Init /\ [][NextIndexer]_vars

\* the indexer in one process, and the calls of retrieve
NextRetrieve ==
  \/ \E docs \in DocLists : Within(docs, MaxIndexed) /\ IndexDocuments(docs, <<>>)
  \/ ClearIndex
  \/ SaveOpen
  \/ SaveWrite
  \/ SaveClose
  \/ \E query \in Queries, k \in Ks : Retrieve(query, k)
  \/ Forget

SpecRetrieve == Init /\ [][NextRetrieve]_vars

\* the requests of the threads on the shared ReportGenerator
Next ==
  \E t \in Threads :
  \/ \E ticker \in Tickers, form_type \in FormTypes, query \in ReportQueries :
        calls < MaxCalls /\ GenerateReport(t, ticker, form_type, query)
  \/ ResolveTicker(t)
  \/ FetchFacts(t)
  \/ FetchFactsFails(t)
  \/ FetchFilings(t)
  \/ FetchFilingsFails(t)
  \/ \E xbrl \in XbrlOutcomes, text_fails \in SUBSET (1..FilingsLimit) :
        CollectRevenue(t, xbrl, text_fails)
  \/ CheckCache(t)
  \/ FetchFiling(t)
  \/ FetchFilingFails(t)
  \/ FetchDone(t)
  \/ IndexDocument(t)
  \/ SaveIndex(t)
  \/ MarkProcessed(t)
  \/ RetrieveAndSummarize(t)
  \/ Return(t)

Spec == Init /\ [][Next]_vars

\* the thread of the calls that come one after the other
Caller == "t1"

\* generate_report calls one at a time
NextReport ==
  \/ \E ticker \in Tickers, form_type \in FormTypes, query \in ReportQueries :
        calls < MaxCalls /\ GenerateReport(Caller, ticker, form_type, query)
  \/ ResolveTicker(Caller)
  \/ FetchFacts(Caller)
  \/ FetchFactsFails(Caller)
  \/ FetchFilings(Caller)
  \/ FetchFilingsFails(Caller)
  \/ \E xbrl \in XbrlOutcomes, text_fails \in SUBSET (1..FilingsLimit) :
        CollectRevenue(Caller, xbrl, text_fails)
  \/ CheckCache(Caller)
  \/ FetchFiling(Caller)
  \/ FetchFilingFails(Caller)
  \/ FetchDone(Caller)
  \/ IndexDocument(Caller)
  \/ SaveIndex(Caller)
  \/ MarkProcessed(Caller)
  \/ RetrieveAndSummarize(Caller)
  \/ Return(Caller)

SpecReport == Init /\ [][NextReport]_vars

\* generate_report calls one at a time, clear_cache calls between them, and
\* restarts of the process
NextCache ==
  \/ NextReport
  \/ \E ticker \in ClearTickers : ClearCache(ticker)
  \/ ForgetCache
  \/ RestartGenerator

SpecCache == Init /\ [][NextCache]_vars

NextSummarize ==
  \/ \E kpis \in KpiChoices, sources \in SourceChoices, user_query \in Queries,
         text \in ResponseTexts : SummarizeOk(kpis, sources, user_query, text)
  \/ \E kpis \in KpiChoices, sources \in SourceChoices, user_query \in Queries,
         e \in ErrorMessages : SummarizeFails(kpis, sources, user_query, e)

SpecSummarize == Init /\ [][NextSummarize]_vars

NextKpis ==
  \/ \E company_facts \in Payloads, now \in Nows : ExtractKpis(company_facts, now)
  \/ ForgetKpis

SpecKpis == Init /\ [][NextKpis]_vars

NextTickers ==
  \/ \E ticker \in TickerInputs : TickerToCik(ticker)
  \/ \E ticker \in TickerInputs : TickerToCikWriteFails(ticker)
  \/ ForgetTicker
  \/ \E f \in TickerFiles : ReplaceTickersFile(f)

SpecTickers == Init /\ [][NextTickers]_vars

NextFilings ==
  \/ \E recent \in Listings, form_type \in FormTypes, limit \in Limits :
        GetLatestFilings(recent, form_type, limit)
  \/ \E form_type \in FormTypes, limit \in Limits : GetLatestFilingsFails(form_type, limit)
  \/ ForgetFilings

SpecFilings == Init /\ [][NextFilings]_vars

\* step 4 on the facts of the XBRL request, and on the filings and their
\* texts when the request gives no revenue
NextRevenue ==
  \/ \E company_facts \in RevenuePayloads, now \in RevenueNows :
        CollectQuarterlyRevenue(TRUE, company_facts, <<G_recent, G_q2>>,
                                <<X_sales, X_sales>>, now)
  \/ \E facts_ok \in BOOLEAN, company_facts \in {EmptyDict, RevenueFacts("Revenues", <<I_q2>>)},
        filings \in FilingChoices, now \in RevenueNows :
        \E fetched \in [1..Len(filings) -> FetchOutcomes] :
           CollectQuarterlyRevenue(facts_ok, company_facts, filings, fetched, now)
  \/ ForgetRevenue

SpecRevenue == Init /\ [][NextRevenue]_vars

\* the two persisted files: the calls of ticker_to_cik, and an indexer
\* that saves, dies and is opened again
NextPersist ==
  \/ \E ticker \in TickerInputs : TickerToCik(ticker)
  \/ \E ticker \in TickerInputs : TickerToCikWriteFails(ticker)
  \/ ForgetTicker
  \/ \E f \in TickerFiles : ReplaceTickersFile(f)
  \/ \E docs \in DocListsSmall : Within(docs, MaxPersisted) /\ IndexDocuments(docs, <<>>)
  \/ SaveOpen
  \/ SaveWrite
  \/ SaveClose
  \/ Crash
  \/ Restart

SpecPersist == Init /\ [][NextPersist]_vars

(***************************************************************************)
(* Properties of the shared ReportGenerator (Spec).                        *)
(***************************************************************************)
\* thread t is between the check of processed_cache and the end of the
\* build it decided on (lines 137 to 140 of generate_report)
Building(t) == gen[t].pc \in {"fetch", "index", "mark"}

\* C2: for concurrent generate_report calls with the same (ticker,
\* form_type, cik) key on one ReportGenerator, at most one build of the
\* index for that key is in flight at any time.
C2_SingleBuildPerKey ==
  \A t, u \in Threads :
     (t # u /\ Building(t) /\ Building(u)) => gen[t].key # gen[u].key

\* C2, its effect: the chunks of one filing are not in the index twice
C2_NoDuplicateChunks ==
  \A i, j \in 1..Len(documents) :
     (documents[i].url = documents[j].url /\ documents[i].text = documents[j].text) => i = j

\* two builds of one key are in flight and both have added their chunks
C2_Witness ==
  \E t, u \in Threads :
     /\ t # u /\ gen[t].pc = "mark" /\ gen[u].pc = "mark"
     /\ gen[t].key = gen[u].key
     /\ gen[t].docs # <<>> /\ gen[u].docs # <<>>

(***************************************************************************)
(* Properties of summarize (SpecSummarize).                                *)
(***************************************************************************)
\* C10: when the generation call raises, summarize returns a non-empty
\* fallback text that contains the literal user query, the number of KPIs
\* and the number of sources, and of the error message its first 100
\* characters at most: the text is as long as the fallback for an empty
\* message plus min(len(message), 100).
C10_FallbackOnError ==
  (summary.called /\ summary.raised) =>
     /\ summary.returned # <<>>
     /\ Contains(summary.returned, summary.user_query)
     /\ Contains(summary.returned, Decimal(Cardinality(summary.kpis)) \o FALLBACK_KEY_METRICS)
     /\ Contains(summary.returned, Decimal(Len(summary.sources)) \o FALLBACK_DOCUMENTS)
     /\ Contains(summary.returned, Take(summary.error, ErrorChars))
     /\ Len(summary.returned)
          = Len(fallback(summary.kpis, summary.sources, summary.user_query, <<>>))
              + Min(Len(summary.error), ErrorChars)

\* a call with KPIs, sources and a query failed with a message of more than
\* 100 characters
C10_Witness ==
  /\ summary.called /\ summary.raised
  /\ Len(summary.error) > ErrorChars
  /\ summary.kpis # {} /\ summary.sources # <<>> /\ summary.user_query # <<>>

\* the number of places of text where word starts
Occurrences(text, word) ==
  Cardinality({ i \in 1..(Len(text) - Len(word) + 1) :
                  SubSeq(text, i, i + Len(word) - 1) = word })

SOURCES_WORD == <<"S", "o", "u", "r", "c", "e", "s", ":">>

\* C11: the narrative summarize returns on a successful generation holds
\* exactly one Sources section, also when the generated text ends with a
\* Sources block of its own.
C11_OneSourcesSection ==
  (summary.called /\ ~summary.raised) =>
     Occurrences(summary.returned, SOURCES_WORD) = 1

\* a successful call whose generated text ended with a Sources block
C11_Witness ==
  /\ summary.called /\ ~summary.raised
  /\ summary.text = R_with_sources
  /\ Occurrences(summary.returned, SOURCES_WORD) = 2

\* the Sources section summarize appended: the text from the last
\* SOURCES_HEADER on
AppendedSection(returned) ==
  LET starts == { i \in 1..(Len(returned) - Len(SOURCES_HEADER) + 1) :
                    SubSeq(returned, i, i + Len(SOURCES_HEADER) - 1) = SOURCES_HEADER }
  IN  IF starts = {} THEN <<>>
      ELSE SubSeq(returned, CHOOSE i \in starts : \A j \in starts : j <= i, Len(returned))

\* C12: the citation list of every call is non-empty; it holds the marker
\* [Sn] and the URL of the n-th source, in order from 1, or the two fixed
\* entries [S1] and [S2] when there is no source; on success the appended
\* Sources section lists each marker once, next to its URL.
C12_Citations ==
  summary.called =>
     LET c == summary.citations
     IN  /\ c # <<>>
         /\ summary.sources # <<>> =>
              /\ Len(c) = Len(summary.sources)
              /\ \A n \in 1..Len(c) :
                    c[n] = << <<"[", "S">> \o Decimal(n) \o <<"]">>, summary.sources[n][2] >>
         /\ summary.sources = <<>> =>
              c = << << <<"[", "S", "1", "]">>, URL_API_DOCS >>,
                     << <<"[", "S", "2", "]">>, URL_EDGAR >> >>
         /\ ~summary.raised =>
              \A n \in 1..Len(c) :
                 /\ Occurrences(AppendedSection(summary.returned), c[n][1]) = 1
                 /\ Contains(AppendedSection(summary.returned),
                             <<"-", " ">> \o c[n][1] \o <<":", " ">> \o c[n][2] \o <<"\n">>)

\* a successful call without sources, and one with two sources
C12_WitnessFallback ==
  /\ summary.called /\ ~summary.raised
  /\ summary.sources = <<>>
  /\ Len(summary.citations) = 2

C12_Witness ==
  /\ summary.called /\ ~summary.raised
  /\ Len(summary.sources) = 2
  /\ Len(summary.citations) = 2
  /\ summary.text = R_with_sources

(***************************************************************************)
(* Properties of extract_kpis (SpecKpis).                                  *)
(***************************************************************************)
\* the observations of the call for a metric in its preferred unit, none
\* when the concept or the unit is absent
PreferredItems(kpi_name) ==
  LET facts == kpis_call.company_facts["facts"]["us-gaap"]
      units == Get(Get(facts, kpi_name, EmptyDict), "units", <<>>)
      at    == { n \in 1..Len(units) : units[n].unit = preferred_unit(kpi_name) }
  IN  IF at = {} THEN <<>> ELSE units[CHOOSE n \in at : TRUE].items

\* a 10-Q observation whose period end is a date within the last 730 days
\* of the time of the call
Qualifies(item) ==
  /\ "form" \in DOMAIN item /\ StartsWith(item.form, FORM_10Q)
  /\ "end" \in DOMAIN item /\ strptime(item.end) # InvalidDate
  /\ LET now  == kpis_call.now
         days == Ordinal(now.y, now.m, now.d) - strptime(item.end)
     IN  days < CutoffDays \/ (days = CutoffDays /\ now.secs = 0)

Qualifying(items) == SelectSeq(items, Qualifies)

HasUsGaap ==
  /\ "facts" \in DOMAIN kpis_call.company_facts
  /\ "us-gaap" \in DOMAIN kpis_call.company_facts["facts"]

\* the observations extract_kpis looks at for a metric: those of the
\* preferred unit, else of USD, else of USD/shares, else of the first unit
SelectedItems(kpi_name) ==
  LET facts == kpis_call.company_facts["facts"]["us-gaap"]
      units == Get(Get(facts, kpi_name, EmptyDict), "units", <<>>)
      named(u) == { n \in 1..Len(units) : units[n].unit = u }
  IN  IF named(preferred_unit(kpi_name)) # {}
        THEN units[CHOOSE n \in named(preferred_unit(kpi_name)) : TRUE].items
      ELSE IF named("USD") # {} THEN units[CHOOSE n \in named("USD") : TRUE].items
      ELSE IF named("USD/shares") # {}
        THEN units[CHOOSE n \in named("USD/shares") : TRUE].items
      ELSE IF units # <<>> THEN units[1].items
      ELSE <<>>

C13_WitnessOld ==
  /\ kpis_call.called /\ ~kpis_call.raised /\ HasUsGaap
  /\ PreferredItems("Revenues") = <<I_3years>>
  /\ kpis_call.now.y = 2026
  /\ kpis_call.kpis = EmptyDict

\* the last of the observations with the latest period end
LatestByEnd(items) ==
  LET latest == CHOOSE e \in { strptime(items[n].end) : n \in 1..Len(items) } :
                   \A n \in 1..Len(items) : strptime(items[n].end) <= e
      at     == { n \in 1..Len(items) : strptime(items[n].end) = latest }
  IN  items[CHOOSE n \in at : \A m \in at : m <= n]

\* C24: for each recognized metric, extract_kpis selects, among the
\* observations that pass the 10-Q and 24-month filters, the one with the
\* latest period end, whatever their order in the payload; among those with
\* the same latest end it takes the last in list order.
C24_LatestEnd ==
  (kpis_call.called /\ ~kpis_call.raised /\ HasUsGaap) =>
     \A kpi_name \in DOMAIN kpis_call.kpis :
        LET pick == LatestByEnd(Qualifying(SelectedItems(kpi_name)))
        IN  /\ kpis_call.kpis[kpi_name].period = pick.end
            /\ "val" \in DOMAIN pick => kpis_call.kpis[kpi_name].value = pick.val

\* C24: the payload lists the observation of 2026 before the one of 2024,
\* both pass the filters, and the record is the one of 2024
C24_Witness ==
  /\ kpis_call.called /\ ~kpis_call.raised /\ HasUsGaap
  /\ SelectedItems("Revenues") = <<I_recent, I_edge>>
  /\ Qualifying(SelectedItems("Revenues")) = <<I_recent, I_edge>>
  /\ kpis_call.kpis["Revenues"].period = D_edge
  /\ kpis_call.kpis["Revenues"].value = I_edge.val

\* C14: extract_kpis gives the empty mapping, without raising, for a
\* payload without facts or us-gaap and for an empty us-gaap section; a
\* metric without facts, or without an observation that survives the form
\* and date filters, has no key; every record of the result carries the val
\* of a surviving observation, never a placeholder.
C14_NoPlaceholder ==
  kpis_call.called =>
     /\ (~HasUsGaap \/ kpis_call.company_facts = Facts(EmptyDict)) =>
           (~kpis_call.raised /\ kpis_call.kpis = EmptyDict)
     /\ HasUsGaap =>
           /\ DOMAIN kpis_call.kpis \subseteq kpi_mappings
           /\ \A kpi_name \in kpi_mappings :
                 Qualifying(SelectedItems(kpi_name)) = <<>>
                    => kpi_name \notin DOMAIN kpis_call.kpis
           /\ \A kpi_name \in DOMAIN kpis_call.kpis :
                 \E n \in 1..Len(SelectedItems(kpi_name)) :
                    LET item == SelectedItems(kpi_name)[n]
                    IN  /\ Qualifies(item)
                        /\ "val" \in DOMAIN item
                        /\ kpis_call.kpis[kpi_name].value = item.val

\* a payload whose Revenues observation fails the date filter, and the
\* payload {}
C14_Witness ==
  /\ kpis_call.called /\ HasUsGaap
  /\ SelectedItems("Revenues") = <<I_3years, I_annual>>
  /\ "Revenues" \in DOMAIN kpis_call.company_facts["facts"]["us-gaap"]
  /\ kpis_call.kpis = EmptyDict

C14_WitnessEmpty ==
  /\ kpis_call.called
  /\ kpis_call.company_facts = EmptyDict
  /\ ~kpis_call.raised
  /\ kpis_call.kpis = EmptyDict

(***************************************************************************)
(* Properties of the persisted files (SpecPersist) and of ticker_to_cik    *)
(* (SpecTickers).                                                          *)
(***************************************************************************)
\* the tickers of the calls in capital letters
UpperCased(ticker) ==
  CASE ticker = <<"a","a","p","l">> -> AAPL
    [] ticker = <<"A","a","p","l">> -> AAPL
    [] ticker = <<"m","s","f","t">> -> MSFT
    [] ticker = <<"z","z","z","z">> -> ZZZZ
    [] OTHER -> ticker

\* what the built-in mapping holds for a ticker
BuiltIn(ticker) ==
  CASE ticker = AAPL -> CIK_AAPL
    [] ticker = MSFT -> CIK_MSFT
    [] OTHER -> None

C18_WitnessCached ==
  /\ ticker_call.called
  /\ ticker_call.found = TF_cached
  /\ ticker_call.cik = CIK_ZZZZ

\* C19: ticker_to_cik returns what the mapping holds for the ticker in
\* capital letters, and None when the mapping has no such ticker.
C19_CaseInsensitive ==
  ticker_call.called =>
     LET u == UpperCased(ticker_call.ticker)
     IN  IF \E e \in ticker_call.mapping : e[1] = u
           THEN <<u, ticker_call.cik>> \in ticker_call.mapping
           ELSE ticker_call.cik = None

\* a ticker in small letters that the mapping holds, and one it does not
C19_Witness ==
  /\ ticker_call.called
  /\ ticker_call.ticker = <<"m","s","f","t">>
  /\ ticker_call.cik = CIK_MSFT

C19_WitnessNone ==
  /\ ticker_call.called
  /\ ticker_call.ticker = <<"z","z","z","z">>
  /\ ticker_call.mapping = common_tickers
  /\ ticker_call.cik = None

(***************************************************************************)
(* Properties of generate_report, one call at a time (SpecReport).         *)
(***************************************************************************)
CikError == "ValueError: Could not find CIK"

NoFilingsError == "ValueError: No filings found"

\* the call on thread t has gone through step 1
Resolved(t) == gen[t].pc \notin {"idle", "resolve"}

\* the call on thread t has gone through the check of the filings
Checked(t) == gen[t].pc \notin {"idle", "resolve", "facts", "filings", "revenue"}

\* the call on thread t has raised the error
RaisedError(t, error) == gen[t].pc = "return" /\ gen[t].outcome = error

\* no ticker of the mapping in use is the ticker in capital letters
Unresolvable(ticker) == BuiltIn(UpperCased(ticker)) = None

\* a call with an unresolvable ticker has raised the error of step 1 and
\* has made no request and invoked no build, retrieval or generation
C15_NoCalls ==
  \A t \in Threads :
     /\ (Resolved(t) /\ Unresolvable(gen[t].ticker)) => RaisedError(t, CikError)
     /\ gen[t].outcome = CikError =>
          /\ Unresolvable(gen[t].ticker)
          /\ gen[t].requests = <<>>
          /\ gen[t].invoked = <<>>

\* the steps of a call up to step 1, and its return, leave the index, its
\* file and processed_cache as they are
C15_Unchanged ==
  \A t \in Threads :
     (gen'[t] # gen[t] /\ gen[t].pc \in {"idle", "resolve"})
        => UNCHANGED <<documents, file, processed_cache>>

\* C15: if the ticker cannot be resolved to a company identifier,
\* generate_report raises at once: no facts fetch, filings fetch, document
\* fetch, index build or generation call is made, and the index and
\* processed_cache are unchanged.
C15_UnresolvedTicker == []C15_NoCalls /\ [][C15_Unchanged]_vars

\* a call for the unknown ticker has raised
C15_Witness ==
  /\ RaisedError(Caller, CikError)
  /\ gen[Caller].ticker = ZZZZ

\* the listing of the company holds no filing of the form
NoFilingOfForm(cik, form_type) ==
  \A n \in 1..Len(RecentFilings(cik)) : RecentFilings(cik)[n].form # form_type

\* a call that got a listing without a filing of the form has raised the
\* error and invoked no build, retrieval or generation; every other call
\* that is through the check has filings
C16_NoBuild ==
  \A t \in Threads :
     /\ (Checked(t) /\ gen[t].requests # <<>>
           /\ \A n \in 1..Len(gen[t].requests) : gen[t].requests[n].ok
           /\ NoFilingOfForm(gen[t].cik, gen[t].form_type))
          => RaisedError(t, NoFilingsError)
     /\ gen[t].outcome = NoFilingsError =>
          /\ gen[t].pc = "return"
          /\ gen[t].filings = <<>>
          /\ gen[t].invoked = <<>>
     /\ gen[t].outcome = "report" => gen[t].filings # <<>>

\* the steps of a call up to the check of the filings leave the index, its
\* file and processed_cache as they are
C16_Unchanged ==
  \A t \in Threads :
     (gen'[t] # gen[t] /\ ~Checked(t))
        => UNCHANGED <<documents, file, processed_cache>>

\* C16: if the filing source returns no filing of the requested form,
\* generate_report raises and returns no report; the index build and the
\* generation are never invoked and the index and processed_cache are
\* unchanged.
C16_NoFilings == []C16_NoBuild /\ [][C16_Unchanged]_vars

\* a call for a form the company has not filed has raised, after the facts
\* and the listing were fetched
C16_Witness ==
  /\ RaisedError(Caller, NoFilingsError)
  /\ gen[Caller].ticker = AAPL /\ gen[Caller].form_type = FORM_10K
  /\ Len(gen[Caller].requests) >= 3

\* no request of the call on thread t is made twice in one step
Once(t) ==
  \A i, j \in 1..Len(gen[t].requests) :
     (/\ gen[t].requests[i].method = gen[t].requests[j].method
      /\ gen[t].requests[i].step = gen[t].requests[j].step
      /\ gen[t].requests[i].arg = gen[t].requests[j].arg) => i = j

\* the requests of the call on thread t that failed
FailedRequests(t) == { i \in 1..Len(gen[t].requests) : ~gen[t].requests[i].ok }

\* the call on thread t has ended with the error of a request
RequestError(t) ==
  gen[t].outcome \notin {"none", "report", CikError, NoFilingsError}

\* C17 as stated: every request is made once, and a failed request that is
\* not a document fetch of the text-revenue fallback ends the call with an
\* error.
C17_AnyFailureAborts ==
  \A t \in Threads :
     /\ Once(t)
     /\ (\E i \in FailedRequests(t) :
            ~(gen[t].requests[i].method = "get_filing_text"
                /\ gen[t].requests[i].step = "revenue"))
          => (gen[t].pc = "return" /\ RequestError(t))

\* C17: every request of generate_report to the filing source is made once
\* with no retry; the call ends with the error of a request exactly when
\* the facts fetch of step 2 or the fetch of the filings list failed, and
\* then that request is its last and nothing is built or generated.
C17_FactsOrListFailureAborts ==
  \A t \in Threads :
     /\ Once(t)
     /\ RequestError(t) <=>
          (\E i \in FailedRequests(t) : gen[t].requests[i].step \in {"facts", "filings"})
     /\ \A i \in FailedRequests(t) :
           gen[t].requests[i].step \in {"facts", "filings"} =>
              /\ i = Len(gen[t].requests)
              /\ gen[t].pc = "return"
              /\ gen[t].invoked = <<>>

\* a report is returned although a document fetch of the build failed
C17_Witness ==
  /\ gen[Caller].pc = "return" /\ gen[Caller].outcome = "report"
  /\ \E i \in FailedRequests(Caller) : gen[Caller].requests[i].step = "build"

\* a call has ended with the error of the fetch of the filings list
C17_WitnessAbort ==
  /\ gen[Caller].pc = "return" /\ gen[Caller].outcome = "RequestException: filings"
  /\ Len(gen[Caller].requests) = 2

\* the requests of the call on thread t that fetch a document for the index
BuildRequests(requests) == SelectSeq(requests, LAMBDA r : r.step = "build")

\* a build is in flight only for a key that is not in processed_cache
C22_NotBuilt ==
  \A t \in Threads : Building(t) => gen[t].key \notin processed_cache

\* a key stays in processed_cache, and a step of a call whose key is in
\* processed_cache fetches no document for the index and leaves the index
\* as it is
C22_Reuse ==
  /\ processed_cache \subseteq processed_cache'
  /\ \A t \in Threads :
        (/\ gen'[t] # gen[t]
         /\ cache_key(gen[t].ticker, gen[t].form_type, gen[t].cik) \in processed_cache)
          => /\ UNCHANGED documents
             /\ gen'[t].pc # "idle" =>
                  BuildRequests(gen'[t].requests) = BuildRequests(gen[t].requests)

\* C22: over generate_report calls that come one after the other with no
\* clear_cache in between, the build of the index for a key runs at most
\* once: a later call with a built key fetches no filing document for the
\* index and leaves the contents of the index unchanged.
C22_BuildOncePerKey == []C22_NotBuilt /\ [][C22_Reuse]_vars

\* a second call for a built key is at the retrieval, having built nothing
C22_Witness ==
  /\ calls = 2
  /\ gen[Caller].pc = "retrieve"
  /\ gen[Caller].key \in processed_cache
  /\ gen[Caller].invoked = <<>>
  /\ documents # <<>>

\* the url is the one _build_document_index gives a filing of the company
FilingOf(cik, url) ==
  StartsWith(url, SEC_ARCHIVES_DATA \o cik \o <<"/">>)

\* the call has returned a report on what the retrieval step found
FromRetrieval ==
  /\ gen[Caller].pc = "return"
  /\ gen[Caller].outcome = "report"
  /\ gen[Caller].retrieved_docs # fallback_sources(gen[Caller].ticker, gen[Caller].cik)

\* C27: in generate_report for a ticker, every chunk the retrieval step
\* returns and hands to the narrative synthesizer was indexed from a filing
\* of that ticker's company, also after reports for other tickers.
C27_OwnFilingsOnly ==
  FromRetrieval =>
    \A n \in 1..Len(gen[Caller].retrieved_docs) :
       FilingOf(gen[Caller].cik, gen[Caller].retrieved_docs[n][2])

\* after a report for MSFT, a report for AAPL is written on a chunk of a
\* filing of MSFT
C27_Witness ==
  /\ FromRetrieval
  /\ calls = 2
  /\ gen[Caller].ticker = AAPL
  /\ \E n \in 1..Len(gen[Caller].retrieved_docs) :
        FilingOf(CIK_MSFT, gen[Caller].retrieved_docs[n][2])

\* the index holds a chunk of a filing that a build for the key added
IndexedFor(key) ==
  \E n \in 1..Len(documents) :
     cache_key(documents[n].ticker, documents[n].form, documents[n].cik) = key

\* C29: processed_cache holds a key only if the build of the index for that
\* key added the chunks of at least one of its filings; a build in which
\* every fetch of a filing document failed does not mark the key as built.
C29_BuiltOnlyIfIndexed ==
  \A key \in processed_cache : IndexedFor(key)

\* the only filing of the key was not fetched in the first call, and the
\* second call for the key is at the retrieval without a build
C29_Witness ==
  /\ calls = 2
  /\ gen[Caller].pc = "retrieve"
  /\ gen[Caller].key \in processed_cache
  /\ ~IndexedFor(gen[Caller].key)
  /\ gen[Caller].invoked = <<>>

(***************************************************************************)
(* Properties of clear_cache and of restarts (SpecCache).                  *)
(***************************************************************************)
\* the chunks of the index that carry the url and the text of chunk d
Copies(d) == SelectSeq(documents, LAMBDA c : c.url = d.url /\ c.text = d.text)

\* C28: over any sequence of generate_report, clear_cache(ticker),
\* clear_cache() and restarts of the process, the index holds the chunks of
\* one filing at most once.
C28_OneCopyPerFiling ==
  \A n \in 1..Len(documents) : Len(Copies(documents[n])) = 1

\* after clear_cache("AAPL") the second report for AAPL has built the index
\* again and a chunk of a filing is in the index twice
C28_Witness ==
  /\ cache_call.made
  /\ cache_call.ticker = AAPL
  /\ cache_call.before # cache_call.after
  /\ crashes = 0
  /\ gen[Caller].pc = "return"
  /\ gen[Caller].invoked # <<>>
  /\ gen[Caller].invoked[1] = "_build_document_index"
  /\ \E n \in 1..Len(documents) : Len(Copies(documents[n])) = 2

\* after a restart that loaded documents.json, the report for a company
\* of the earlier run has built the index again
C28_AfterRestart ==
  /\ ~cache_call.made
  /\ crashes = 1
  /\ gen[Caller].pc = "return"
  /\ \E n \in 1..Len(documents) : Len(Copies(documents[n])) = 2

\* a key of processed_cache that a build for the ticker put there
BuiltFor(key, ticker) ==
  \E form_type \in FormTypes, cik \in {CIK_AAPL, CIK_MSFT} :
     key = cache_key(ticker, form_type, cik)

\* C30: clear_cache(ticker) removes exactly the entries of processed_cache
\* that were built for that ticker and leaves the entries of every other
\* ticker, also of a ticker that starts with the given string.
C30_ExactlyTheTicker ==
  (cache_call.made /\ cache_call.ticker # NoTicker) =>
     cache_call.after = { key \in cache_call.before : ~BuiltFor(key, cache_call.ticker) }

\* clear_cache("A") was called on a cache with an entry of AAPL, and the
\* entry is gone
C30_Witness ==
  /\ cache_call.made
  /\ cache_call.ticker = <<"A">>
  /\ cache_key(AAPL, FORM_10Q, CIK_AAPL) \in cache_call.before
  /\ cache_key(AAPL, FORM_10Q, CIK_AAPL) \notin cache_call.after

\* clear_cache("MSFT") on a cache with the entries of both companies
\* leaves the entry of AAPL
C30_OtherTickerKept ==
  /\ cache_call.made
  /\ cache_call.ticker = MSFT
  /\ Cardinality(cache_call.before) = 2
  /\ cache_call.after = {cache_key(AAPL, FORM_10Q, CIK_AAPL)}

(***************************************************************************)
(* Properties of step 4 of generate_report (SpecRevenue).                  *)
(***************************************************************************)
\* a 10-Q observation whose period end is a date within the 730 days
\* before the run
InWindow(item) ==
  /\ "form" \in DOMAIN item /\ StartsWith(item.form, FORM_10Q)
  /\ "end" \in DOMAIN item /\ strptime(item.end) # InvalidDate
  /\ LET now  == revenue_call.now
         days == Ordinal(now.y, now.m, now.d) - strptime(item.end)
     IN  days < CutoffDays \/ (days = CutoffDays /\ now.secs = 0)

\* the USD observations of a revenue field of the facts that are in the
\* window
WindowItems(field) ==
  LET facts == revenue_call.company_facts
      us_gaap == IF "facts" \in DOMAIN facts /\ "us-gaap" \in DOMAIN facts["facts"]
                   THEN facts["facts"]["us-gaap"] ELSE EmptyDict
      units == IF field \in DOMAIN us_gaap /\ "units" \in DOMAIN us_gaap[field]
                 THEN us_gaap[field]["units"] ELSE <<>>
      at == { n \in 1..Len(units) : units[n].unit = "USD" }
  IN  IF at = {} THEN <<>> ELSE SelectSeq(units[CHOOSE n \in at : TRUE].items, InWindow)

\* the sums of the up to 3 most recent observations of the list (more than
\* one sum when observations of one end are at the cut)
RecentSums(items) ==
  { LET pos == { n \in chosen : "val" \in DOMAIN items[n] }
        vals == [n \in pos |-> items[n].val]
    IN  IF pos = {} THEN 0
        ELSE Sum([i \in 1..Cardinality(pos) |->
                    vals[CHOOSE n \in pos : Cardinality({m \in pos : m < n}) = i - 1]])
    : chosen \in { c \in SUBSET (1..Len(items)) :
                     /\ Cardinality(c) = Min(FilingsLimit, Len(items))
                     /\ \A n \in c, m \in (1..Len(items)) \ c :
                           strptime(items[m].end) <= strptime(items[n].end) } }

\* the fields whose most recent observations give a positive sum
YieldingFields ==
  { n \in 1..Len(revenue_fields) :
      \E v \in RecentSums(WindowItems(revenue_fields[n])) : v > 0 }

\* the period ends of quarterly_revenues
RevenueEnds == { revenue_call.revenues[n][1] : n \in 1..Len(revenue_call.revenues) }

\* the period text names the ends in ascending order of their dates
AscendingEnds ==
  \E ends \in [1..Len(revenue_call.revenues) -> RevenueEnds] :
     /\ \A i, j \in 1..Len(ends) : i < j => strptime(ends[i]) < strptime(ends[j])
     /\ revenue_call.kpi[1].period =
          <<"L","a","s","t"," ">> \o Decimal(Len(ends))
            \o <<" ","q","u","a","r","t","e","r","s"," ","(">> \o Join(ends) \o <<")">>

\* C25: Revenue_9_Months is added to the KPIs if and only if the sum of
\* the collected quarterly revenues is positive; with revenue from the
\* facts its value is the sum of the up to 3 most recent 10-Q USD
\* observations in the 24-month window, of the first revenue field in
\* priority order that yields any; its period text lists the period ends
\* in ascending order.
C25_TrailingRevenue ==
  revenue_call.called =>
     /\ revenue_call.kpi # <<>> <=> SumValues(revenue_call.revenues) > 0
     /\ revenue_call.kpi # <<>> => AscendingEnds
     /\ (revenue_call.facts_ok /\ YieldingFields # {}) =>
          /\ revenue_call.kpi # <<>>
          /\ revenue_call.kpi[1].value \in
               RecentSums(WindowItems(revenue_fields[
                  CHOOSE n \in YieldingFields : \A m \in YieldingFields : n <= m]))

\* C25 on facts that name every period end once
C25_DistinctEnds ==
  (/\ revenue_call.called /\ revenue_call.facts_ok
   /\ \A f \in 1..Len(revenue_fields) :
         \A i, j \in 1..Len(WindowItems(revenue_fields[f])) :
            i # j => WindowItems(revenue_fields[f])[i].end # WindowItems(revenue_fields[f])[j].end)
    => /\ revenue_call.kpi # <<>> <=> SumValues(revenue_call.revenues) > 0
       /\ revenue_call.kpi # <<>> => AscendingEnds
       /\ YieldingFields # {} =>
            /\ revenue_call.kpi # <<>>
            /\ revenue_call.kpi[1].value \in
                 RecentSums(WindowItems(revenue_fields[
                    CHOOSE n \in YieldingFields : \A m \in YieldingFields : n <= m]))

\* C25: the list holds two observations of one period end and one of
\* another; the value is the sum of two of the three
C25_Witness ==
  /\ revenue_call.called /\ revenue_call.facts_ok
  /\ WindowItems("Revenues") = <<I_recent, I_ytd, I_q2>>
  /\ revenue_call.kpi # <<>>
  /\ revenue_call.kpi[1].value = I_ytd.val + I_q2.val

\* the amount, in thousands of dollars, the text of filing n yields: the
\* text was fetched, its report date is not before the window, and it
\* holds 'Total net sales 1,200' or '... revenue 3 billion'
Yield(n) ==
  IF revenue_call.filings[n] = G_old THEN 0
  ELSE IF revenue_call.fetched[n] = X_sales THEN 1200000
  ELSE IF revenue_call.fetched[n] = X_billion THEN 3000000
  ELSE 0

\* C26: the text fallback runs only when the structured aggregation gave
\* nothing; it asks for the text of the at most 3 filings in their order;
\* a failed fetch or extraction for one filing neither ends the step nor
\* keeps the later filings from being tried; a filing that yields no
\* positive value adds no entry.
C26_TextFallback ==
  revenue_call.called =>
     /\ revenue_call.requests # <<>> <=>
          (revenue_call.xbrl = <<>> /\ revenue_call.filings # <<>>)
     /\ revenue_call.requests # <<>> =>
          /\ Len(revenue_call.requests) <= FilingsLimit
          /\ revenue_call.requests =
               [n \in 1..Len(revenue_call.filings) |-> revenue_call.filings[n].primaryDocument]
          /\ \A n \in 1..Len(revenue_call.filings) :
                Yield(n) > 0 =>
                   \E e \in 1..Len(revenue_call.revenues) :
                      /\ revenue_call.revenues[e][1] = revenue_call.filings[n].reportDate
                      /\ revenue_call.revenues[e][2] > 0
          /\ \A e \in 1..Len(revenue_call.revenues) :
                \E n \in 1..Len(revenue_call.filings) :
                   /\ revenue_call.revenues[e] = <<revenue_call.filings[n].reportDate, Yield(n)>>
                   /\ Yield(n) > 0
     /\ revenue_call.requests = <<>> => revenue_call.revenues = revenue_call.xbrl

\* C26: the fetch of the first filing fails, the second has no match, and
\* the third adds its entry
C26_Witness ==
  /\ revenue_call.called
  /\ revenue_call.filings = <<G_old, G_undated, G_recent>>
  /\ revenue_call.fetched = <<X_fails, X_none, X_billion>>
  /\ revenue_call.revenues = << <<D_recent, 3000000>> >>

(***************************************************************************)
(* Properties of get_latest_filings (SpecFilings).                         *)
(***************************************************************************)
\* the positions of the listing with the form of the call
MatchingForms ==
  { i \in 1..Len(filings_call.recent.form) :
      filings_call.recent.form[i] = filings_call.form_type }

\* the n-th filing of the result is the filing at the n-th matching
\* position of the listing, with the fields of that position
InListingOrder ==
  \A n \in 1..Len(filings_call.filings) :
     \E i \in MatchingForms :
        /\ Cardinality({ j \in MatchingForms : j < i }) = n - 1
        /\ filings_call.filings[n] =
             [form            |-> filings_call.recent.form[i],
              filingDate      |-> filings_call.recent.filingDate[i],
              reportDate      |-> filings_call.recent.reportDate[i],
              accessionNumber |-> filings_call.recent.accessionNumber[i],
              primaryDocument |-> filings_call.recent.primaryDocument[i]]

\* C20: get_latest_filings returns the first limit filings of the listing
\* with the form form_type, at most limit, in the order of the listing,
\* each with the fields at the position of its form.
C20_FirstLimitMatching ==
  (filings_call.called /\ ~filings_call.raised) =>
     /\ Len(filings_call.filings) <= filings_call.limit
     /\ Len(filings_call.filings) = Min(filings_call.limit, Cardinality(MatchingForms))
     /\ \A n \in 1..Len(filings_call.filings) :
           filings_call.filings[n].form = filings_call.form_type
     /\ InListingOrder

\* C20 for a limit of at least 1, which is what the code keeps
C20_PositiveLimit ==
  (filings_call.called /\ ~filings_call.raised /\ filings_call.limit >= 1) =>
     /\ Len(filings_call.filings) = Min(filings_call.limit, Cardinality(MatchingForms))
     /\ \A n \in 1..Len(filings_call.filings) :
           filings_call.filings[n].form = filings_call.form_type
     /\ InListingOrder

\* a call with limit 0 on a listing that holds a filing of the form
C20_Witness ==
  /\ filings_call.called /\ ~filings_call.raised
  /\ filings_call.limit = 0
  /\ MatchingForms # {}
  /\ Len(filings_call.filings) = 1

(***************************************************************************)
(* Properties of the index and its file (SpecIndexer).                     *)
(***************************************************************************)
\* C1: a new DocumentIndexer opened on the directory after a crash at any
\* point holds exactly the chunks of the last save that completed before
\* the crash: none of them is lost and none appears twice.
C1_ReloadIsCommitted ==
  (lastOp = "restart" /\ ipc = "idle") => documents = committed

\* C4: once clear_index has returned and until index_documents is called
\* with a non-empty list, total_chunks is 0 and retrieve returns the empty
\* list for every query and every k, in memory and after a reload of the
\* file.
C4_ClearedStaysEmpty ==
  (cleared /\ ipc = "idle") =>
     /\ get_collection_stats(documents).total_chunks = 0
     /\ \A query \in Queries, k \in Ks : retrieve(documents, query, k) = <<>>

\* C4, the part the code keeps: in the process that called clear_index the
\* index is empty until the next index_documents call.
C4_ClearedInMemory ==
  (cleared /\ ipc = "idle" /\ crashes = 0) =>
     /\ get_collection_stats(documents).total_chunks = 0
     /\ \A query \in Queries, k \in Ks : retrieve(documents, query, k) = <<>>

\* C5 as stated: after indexing N documents with c_i chunks each,
\* total_chunks is the sum of the c_i.
C5_TotalIsSum ==
  (stats # NoStats /\ call.made) => stats.total_chunks = Sum(call.counts)

\* the count after an index_documents call: what the index held plus the
\* sum of the c_i
C5_Count ==
  (stats # NoStats /\ call.made) =>
     stats.total_chunks = call.before + Sum(call.counts)

\* a step that hands out a get_collection_stats result changes neither the
\* chunks, nor the file, nor the control state of the indexer
C5_StatsStep ==
  (stats' # stats /\ stats' # NoStats) =>
     /\ documents' = documents
     /\ file' = file
     /\ ipc' = ipc
     /\ stats' = get_collection_stats(documents)

\* C5 (amended): index_documents on N documents with c_i chunks each raises
\* total_chunks by the sum of the c_i, so total_chunks is that sum when the
\* index was empty before the call; get_collection_stats changes nothing.
C5_IndexAddsSum == [](C5_Count) /\ [][C5_StatsStep]_vars

\* C5: get_collection_stats after a call with two documents (one chunk and
\* no chunk) on an index that held one chunk
C5_Witness ==
  /\ stats # NoStats
  /\ call.made
  /\ call.before = 1
  /\ Len(call.counts) = 2
  /\ Sum(call.counts) = 1
  /\ stats.total_chunks = 2

\* C6: no two chunks of the index have the same chunk_id.
C6_ChunkIdsUnique ==
  \A m, n \in 1..Len(documents) :
     m # n => documents[m].chunk_id # documents[n].chunk_id

(***************************************************************************)
(* Properties of retrieve (SpecRetrieve).                                  *)
(***************************************************************************)
\* the positions of the chunks with a non-zero score for the query
Matching(query) ==
  { n \in 1..Len(documents) : Score(documents[n], query) > 0 }

\* C3: retrieve(query, k) with k >= 0 returns exactly min(k, m) results, m
\* the number of chunks with a non-zero score: never more than k, none on
\* an empty index, all m when k > m.
C3_RetrieveLength ==
  (retrieved.held /\ retrieved.k >= 0) =>
     /\ Len(retrieved.chunks) = Min(retrieved.k, Cardinality(Matching(retrieved.query)))
     /\ Len(retrieved.chunks) <= retrieved.k
     /\ (documents = <<>> => retrieved.chunks = <<>>)

\* C3: a call with k larger than the number of matching chunks, which are
\* two of the three indexed ones
C3_Witness ==
  /\ retrieved.held
  /\ Len(documents) = 3
  /\ Cardinality(Matching(retrieved.query)) = 2
  /\ retrieved.k = 3
  /\ Len(retrieved.chunks) = 2

\* a >= b for two fractions
FracGeq(a, b) == a.num * b.den >= b.num * a.den

\* C7: the results are in order of non-increasing score, and chunks of
\* equal score are in the order of their insertion into the index.
C7_OrderedStable ==
  retrieved.held =>
     \A p, q \in 1..Len(retrieved.chunks) :
        p < q =>
          /\ FracGeq(retrieved.chunks[p][3], retrieved.chunks[q][3])
          /\ retrieved.top[p][2] >= retrieved.top[q][2]
          /\ (retrieved.top[p][2] = retrieved.top[q][2]
                => retrieved.top[p][1] < retrieved.top[q][1])

\* C7: a result with two chunks of equal score behind a chunk of higher
\* score that was inserted after one of them
C7_Witness ==
  /\ retrieved.held
  /\ Len(retrieved.chunks) = 3
  /\ retrieved.top[1][2] > retrieved.top[2][2]
  /\ retrieved.top[2][2] = retrieved.top[3][2]
  /\ retrieved.top[1][1] > retrieved.top[2][1]

\* C8: every returned score is the raw score of the chunk divided by
\* 2 * |expanded query tokens| + 1 and lies in [0, 1].
C8_ScoreNormalized ==
  retrieved.held =>
     \A n \in 1..Len(retrieved.chunks) :
        LET sim == retrieved.chunks[n][3]
            raw == Score(documents[retrieved.top[n][1]], retrieved.query)
            mx  == 2 * Cardinality(expanded_query_words(retrieved.query)) + 1
        IN  /\ sim.den > 0
            /\ sim.num * mx = raw * sim.den
            /\ 0 <= sim.num
            /\ sim.num <= sim.den

\* C8: a query with a repeated token whose result holds a score strictly
\* between 0 and 1
C8_Witness ==
  /\ retrieved.held
  /\ retrieved.query = Q_SellSell
  /\ \E n \in 1..Len(retrieved.chunks) :
        /\ retrieved.chunks[n][3].num > 0
        /\ retrieved.chunks[n][3].num < retrieved.chunks[n][3].den

\* the position of chunk n of the index in the result, 0 when it is absent
Rank(n) ==
  IF \E p \in 1..Len(retrieved.top) : retrieved.top[p][1] = n
    THEN CHOOSE p \in 1..Len(retrieved.top) : retrieved.top[p][1] = n
    ELSE 0

\* chunk a contains a strict superset of the expanded query tokens chunk b
\* contains, and both agree on the financial-section bonus
MoreTokens(a, b, query) ==
  /\ MatchedWords(documents[b], query) \subseteq MatchedWords(documents[a], query)
  /\ MatchedWords(documents[b], query) # MatchedWords(documents[a], query)
  /\ HasFinancialSection(documents[a]) = HasFinancialSection(documents[b])

\* C9: a chunk that contains a strict superset of the expanded query tokens
\* of another chunk, with the same financial-section bonus, is never ranked
\* below it: when the other chunk is returned, so is this one, before it.
C9_Monotone ==
  retrieved.held =>
     \A a, b \in 1..Len(documents) :
        (MoreTokens(a, b, retrieved.query) /\ Rank(b) > 0) =>
           (Rank(a) > 0 /\ Rank(a) < Rank(b))

\* C9: both chunks are returned and the one with more tokens was inserted
\* after the other
C9_Witness ==
  /\ retrieved.held
  /\ \E a, b \in 1..Len(documents) :
        /\ MoreTokens(a, b, retrieved.query)
        /\ MatchedWords(documents[b], retrieved.query) # {}
        /\ b < a
        /\ Rank(b) > 0
        /\ Rank(a) > 0

\* 2 for every token of the list that is in the text, a token counted at
\* its first occurrence in the list only
RECURSIVE TokenPoints(_, _, _)
TokenPoints(tokens, seen, text) ==
  IF tokens = <<>>
    THEN 0
    ELSE (IF Head(tokens) \notin seen /\ Contains(text, Head(tokens)) THEN 2 ELSE 0)
           + TokenPoints(Tail(tokens), seen \cup {Head(tokens)}, text)

\* the synonyms of the tokens that are not tokens themselves
Synonyms(tokens) ==
  { w \in UNION { Range(investment_keywords[c]) : c \in DOMAIN investment_keywords } :
      /\ \A i \in 1..Len(tokens) : tokens[i] # w
      /\ \E c \in DOMAIN investment_keywords, i \in 1..Len(tokens) :
            /\ w \in Range(investment_keywords[c])
            /\ tokens[i] \in Range(investment_keywords[c]) }

\* the raw score of a text for a query, token by token
RawScore(text, query) ==
  LET tokens == Split(Lower(query))
  IN  TokenPoints(tokens, {}, Lower(text))
        + Cardinality({ w \in Synonyms(tokens) : Contains(Lower(text), w) })
        + (IF \E m \in DOMAIN financial_sections :
                 Contains(Lower(text), financial_sections[m])
             THEN 1 ELSE 0)

\* C23: the raw score of a chunk for a query is 2 for each distinct token
\* of the query that is a substring of the lower-cased chunk, plus 1 for
\* each synonym of a token, not itself a token, that is a substring, plus 1
\* if the chunk holds a financial-section marker; a chunk is returned only
\* if this score is greater than 0.
C23_RawScore ==
  retrieved.held =>
     \A n \in 1..Len(retrieved.top) :
        /\ retrieved.top[n][2] = RawScore(documents[retrieved.top[n][1]].text, retrieved.query)
        /\ retrieved.top[n][2] > 0
        /\ retrieved.chunks[n][1] = documents[retrieved.top[n][1]].text

\* C23: a returned chunk that holds a token of the query, a synonym of the
\* other token and a financial-section marker
C23_Witness ==
  /\ retrieved.held
  /\ retrieved.query = Q_exitcash
  /\ \E n \in 1..Len(retrieved.top) :
        /\ documents[retrieved.top[n][1]].text = T_sellcash
        /\ retrieved.top[n][2] = 4

=============================================================================
